---- MODULE Spec2Model ----
(***************************************************************************)
(* GitBook tool proxy of builders-sodax-mcp-server.                        *)
(*                                                                         *)
(* State: the process-wide tool cache of services/gitbookProxy.ts          *)
(* (cachedTools, toolsCacheTime), the module flag metaToolsRegistered of   *)
(* tools/gitbookProxy.ts, the tool registry of every McpServer instance,   *)
(* and one record per asynchronous call in flight.                         *)
(*                                                                         *)
(* JavaScript runs one callback at a time: every action below is the code  *)
(* between two suspension points (await), and the clock only moves         *)
(* between actions.                                                        *)
(***************************************************************************)
EXTENDS Integers, Sequences, FiniteSets, TLC

(* ------------------------------ bounds -------------------------------- *)
\* asynchronous calls started in one behaviour
MaxCalls == 3
\* of these, the calls started on the cache while the clock runs
MaxCacheCalls == 2
\* McpServer instances built in one behaviour
MaxServers == 2
\* clock advances in one behaviour
MaxTicks == 2
\* Date.now() when the process starts (ms since the epoch, scaled down)
StartTime == 1000000

(* ------------------------- program constants -------------------------- *)
\* const TOOLS_CACHE_DURATION = 10 * 60 * 1000
TOOLS_CACHE_DURATION == 600000

Calls == 1..MaxCalls
Servers == 1..MaxServers

\* the clock moves by half a TTL, so that a cached set is seen at the ages
\* 0 and TTL/2 (fresh) and at TTL exactly and beyond (stale)
TickSteps == {TOOLS_CACHE_DURATION \div 2}

(* ------------------------------ data ---------------------------------- *)
\* A remote tool list: the ordered names of the RemoteToolDefinitions.
ToolLists == {<<>>, <<"search">>, <<"getPage", "search">>}

\* cachedTools: GitBookTool[] | null
Null == [isNull |-> TRUE, tools |-> <<>>]
Some(l) == [isNull |-> FALSE, tools |-> l]

\* What comes back for one JSON-RPC POST: the transport fails (unreachable,
\* 30 s timeout), the body carries error, the body has no result, the result
\* has no tools member, or the result has a tools array.
Replies ==
  [kind : {"unreachable", "timeout", "rpcError", "noResult", "noTools"}, tools : {<<>>}]
    \cup [kind : {"tools"}, tools : ToolLists]

\* sendMcpRequest throws: axios rejects, or response.data.error is set
SendThrows(reply) == reply.kind \in {"unreachable", "timeout", "rpcError"}

\* `result.tools` in fetchGitBookTools throws a TypeError when
\* sendMcpRequest returned undefined (no result member)
ListThrows(reply) == SendThrows(reply) \/ reply.kind = "noResult"

\* result.tools || []
ResultTools(reply) == IF reply.kind = "tools" THEN reply.tools ELSE <<>>

\* local tool names are prefix + remote name; the pair keeps the
\* concatenation injective
DocsName(n) == <<"docs_", n>>
MetaTools == {DocsName("health"), DocsName("refresh"), DocsName("list_tools")}
SodaxTools ==
  { <<"sodax_", n>> : n \in
      {"get_supported_chains", "get_swap_tokens", "get_transaction",
       "get_user_transactions", "get_volume", "get_orderbook",
       "get_money_market_assets", "get_user_position", "get_partners",
       "get_token_supply", "refresh_cache"} }
IsDocs(t) == t[1] = "docs_"

\* field names a remote parameter schema declares or lists as required
Keys == {"query", "limit"}

\* an entry of inputSchema.properties as the JSON it arrives as: null, a
\* value that is not an object, or an object whose type member is missing
\* (type "") or a string
PropDefs ==
  [form : {"null", "scalar"}, type : {""}]
    \cup [form : {"object"},
          type : {"", "string", "number", "integer", "boolean", "array",
                  "object", "date"}]

EmptyDefs == [k \in {} |-> [form |-> "null", type |-> ""]]

\* inputSchema.properties: missing, or an object from field names to entries
Properties ==
  {[has |-> FALSE, defs |-> EmptyDefs]}
    \cup {[has |-> TRUE, defs |-> d] : d \in UNION {[K -> PropDefs] : K \in SUBSET Keys}}

\* inputSchema.required: missing, an array of names, or a value that is
\* neither (an object, true)
Required ==
  [form : {"absent", "other"}, names : {{}}]
    \cup [form : {"list"}, names : SUBSET Keys]

\* GitBookTool["inputSchema"] as a remote server can send it
Schemas == [present : {TRUE}, properties : Properties, required : Required]

\* a tool definition that carries no inputSchema member
NoSchema ==
  [present |-> FALSE,
   properties |-> [has |-> FALSE, defs |-> EmptyDefs],
   required |-> [form |-> "absent", names |-> {}]]

\* JSON values by typeof / Array.isArray / null
Values ==
  {[kind |-> "string", lit |-> "swap"], [kind |-> "number", lit |-> "5"],
   [kind |-> "boolean", lit |-> "true"], [kind |-> "array", lit |-> "[]"],
   [kind |-> "object", lit |-> "{}"], [kind |-> "null", lit |-> "null"]}

\* keys an argument object can hold: the schema's names and one more
ArgKeys == Keys \cup {"page"}
EmptyArgs == [k \in {} |-> [kind |-> "null", lit |-> "null"]]
\* argument objects: Record<string, unknown>
ArgObjects == UNION {[K -> Values] : K \in SUBSET ArgKeys}

\* the inputSchema each remote tool name stands for: well-formed ones,
\* one without inputSchema, one with a null property entry
RemoteSchema(name) ==
  CASE name = "search" ->
         [present |-> TRUE,
          properties |-> [has |-> TRUE,
                          defs |-> [k \in Keys |->
                                      IF k = "query"
                                      THEN [form |-> "object", type |-> "string"]
                                      ELSE [form |-> "object", type |-> "integer"]]],
          required |-> [form |-> "list", names |-> {"query"}]]
    [] name = "getPage" ->
         [present |-> TRUE,
          properties |-> [has |-> TRUE,
                          defs |-> [k \in {"query"} |-> [form |-> "object", type |-> "string"]]],
          required |-> [form |-> "absent", names |-> {}]]
    [] name = "nullProp" ->
         [present |-> TRUE,
          properties |-> [has |-> TRUE,
                          defs |-> [k \in {"query"} |-> [form |-> "null", type |-> ""]]],
          required |-> [form |-> "absent", names |-> {}]]
    [] name = "health" ->
         [present |-> TRUE,
          properties |-> [has |-> FALSE, defs |-> EmptyDefs],
          required |-> [form |-> "absent", names |-> {}]]
    [] OTHER -> NoSchema
\* "health" is a remote tool whose name is that of a meta-tool
RemoteNames == {"search", "getPage", "nullProp", "noSchema", "health"}

(* ------------------------------ state --------------------------------- *)
VARIABLES
  now,                  \* Date.now()
  cachedTools,          \* services/gitbookProxy.ts: cachedTools
  toolsCacheTime,       \* services/gitbookProxy.ts: toolsCacheTime
  metaToolsRegistered,  \* tools/gitbookProxy.ts: metaToolsRegistered
  registry,             \* per McpServer: the names registered with server.tool
  created,              \* the McpServer instances constructed so far
  calls,                \* one record per asynchronous call
  clean,                \* history: a call has returned, no invalidation since
  okSince,              \* history: when the set such a call returned was stored
  metaRuns,             \* history: times registerGitBookMetaTools was entered
  afterClear,           \* history: invalidated, and no fetch entered since
  inv,                  \* the docs_ handler invocation being served
  batch,                \* a tool list handed to the registration loop
  conv,                 \* a parameter schema under translation
  gitbookToolsRegistered, \* index.ts: gitbookToolsRegistered
  gitbookInitAttempts,  \* index.ts: gitbookInitAttempts
  boot,                 \* main(): position of the start-up sequence
  posthogKey,           \* analytics.ts: POSTHOG_API_KEY is set
  restCache,            \* services/sodaxApi.ts: cache (key -> entry)
  rest                  \* the cached REST read being served

vars == <<now, cachedTools, toolsCacheTime, metaToolsRegistered, registry,
          created, calls, okSince, clean, metaRuns, afterClear, inv, batch, conv,
          gitbookToolsRegistered, gitbookInitAttempts, boot, posthogKey,
          restCache, rest>>

\* the state of start-up, analytics and the REST cache
appVars == <<gitbookToolsRegistered, gitbookInitAttempts, boot, posthogKey,
             restCache, rest>>

\* the state of the handler, registration-loop and translation parts
toolVars == <<inv, batch, conv>>

\* reqs: the upstream tools/list requests the call has issued
IdleCall ==
  [op |-> "none", pc |-> "idle", srv |-> 0, hit |-> FALSE, reqs |-> 0,
   failed |-> FALSE, got |-> <<>>, ret |-> <<>>, wrote |-> FALSE,
   threw |-> FALSE, count |-> 0, metaBy |-> FALSE,
   after |-> FALSE, afterOk |-> FALSE, forced |-> FALSE]

\* a content block: type, text?, and whatever else the block carries
Absent == [has |-> FALSE, val |-> <<>>]
Present(v) == [has |-> TRUE, val |-> v]
TextBlock(t) == [type |-> "text", text |-> Present(t), extra |-> Absent]

\* what callGitBookTool hands back when nothing has been returned yet
NoResult ==
  [threw |-> FALSE, defined |-> FALSE, hasContent |-> FALSE, content |-> <<>>,
   isError |-> "absent"]
\* a handler that has not answered
NoResponse == [threw |-> FALSE, answered |-> FALSE, content |-> <<>>, isError |-> "absent"]
NoCallReply == [kind |-> "none", hasContent |-> FALSE, content |-> <<>>, isError |-> "absent"]

\* sent: the JSON-RPC requests the handler has posted; left: the
\* fetchGitBookTools calls a meta-tool handler still has to make; initOk:
\* how the last initialize POST settled; toolCount: health.toolCount, from
\* the first fetch of docs_health; out: what the wrapper installed
\* by withAnalytics hands to the caller; tracked: its trackToolCall calls;
\* captured: the events given to the PostHog client
IdleInv ==
  [op |-> "none", pc |-> "idle", tool |-> DocsName(""), args |-> EmptyArgs,
   sent |-> <<>>, reply |-> NoCallReply, result |-> NoResult,
   resp |-> NoResponse, left |-> 0, toolCount |-> 0, initOk |-> "none",
   out |-> NoResponse, tracked |-> <<>>, captured |-> <<>>]
\* params: the parameter shape handed to server.tool, per name registered
NoParamShapes == [n \in {} |-> EmptyDefs]
IdleBatch ==
  [pc |-> "idle", tools |-> <<>>, before |-> {}, count |-> 0,
   params |-> NoParamShapes]
IdleConv ==
  [pc |-> "idle", schema |-> NoSchema,
   out |-> [threw |-> FALSE, shape |-> EmptyDefs], args |-> EmptyArgs, ok |-> FALSE]

\* cache keys of two cached reads: getSupportedChains, whose body falls
\* back on [], and getTokenSupply, whose body does not
RestKeys == {"chains", "token-supply"}
\* const cache = new Map<string, CacheEntry<unknown>>(): a key without an
\* entry is shown by has = FALSE
NoEntry == [has |-> FALSE, data |-> "", timestamp |-> 0]
IdleRest ==
  [pc |-> "idle", key |-> "chains", hit |-> FALSE, reqs |-> 0, ret |-> "",
   threw |-> FALSE, had |-> FALSE, age |-> 0, dropped |-> FALSE, stored |-> FALSE]
\* main() not yet entered
IdleBoot ==
  [pc |-> "idle", transport |-> "http", retryCount |-> 0, left |-> 0,
   tools |-> <<>>, failed |-> FALSE, upstream |-> 0, waited |-> 0,
   since |-> 0, returned |-> FALSE, ret |-> FALSE, got |-> FALSE]

\* start-up, analytics and the REST cache before main() runs
AppIdle ==
  /\ gitbookToolsRegistered = FALSE
  /\ gitbookInitAttempts = 0
  /\ boot = IdleBoot
  /\ restCache = [k \in RestKeys |-> NoEntry]
  /\ rest = IdleRest

Init ==
  /\ now = StartTime
  /\ cachedTools = Null
  /\ toolsCacheTime = 0
  /\ metaToolsRegistered = FALSE
  /\ registry = [s \in Servers |-> {}]
  /\ created = {}
  /\ calls = [c \in Calls |-> IdleCall]
  /\ okSince = 0
  /\ clean = FALSE
  /\ metaRuns = 0
  /\ afterClear = FALSE
  /\ inv = IdleInv
  /\ batch = IdleBatch
  /\ conv = IdleConv
  /\ AppIdle
  /\ posthogKey = FALSE

(* ------------------- services/gitbookProxy.ts ------------------------- *)
\* variant: the age test written with <=
CacheFresh_Inclusive(tools, time, t) ==
  ~tools.isNull /\ t - time <= TOOLS_CACHE_DURATION

\* variant: the age test written with >
CacheFresh_Inverted(tools, time, t) ==
  ~tools.isNull /\ t - time > TOOLS_CACHE_DURATION

\* if (cachedTools && Date.now() - toolsCacheTime < TOOLS_CACHE_DURATION)
\* (an array, even an empty one, is truthy)
CacheFresh(tools, time, t) ==
  ~tools.isNull /\ t - time < TOOLS_CACHE_DURATION

\* variant: a response without tools is not stored
StoredCache_SkipsEmpty(reply, t) ==
  IF ResultTools(reply) = <<>>
  THEN [tools |-> cachedTools, time |-> toolsCacheTime]
  ELSE [tools |-> Some(ResultTools(reply)), time |-> t]

\* variant: a response is stored only into an empty cache
StoredCache_FirstWins(reply, t) ==
  IF cachedTools.isNull
  THEN [tools |-> Some(ResultTools(reply)), time |-> t]
  ELSE [tools |-> cachedTools, time |-> toolsCacheTime]

\* cachedTools = result.tools || []; toolsCacheTime = Date.now()
StoredCache(reply, t) == [tools |-> Some(ResultTools(reply)), time |-> t]

\* variant: the catch block returns [] whatever is cached
FailReturn_Empty(tools) == <<>>

\* catch: return cachedTools || []
FailReturn(tools) == IF tools.isNull THEN <<>> ELSE tools.tools

\* variant: the catch block caches the failure as an empty set
CacheAfterFailure_Negative(tools, time) == [tools |-> Some(<<>>), time |-> now]

\* variant: the catch block drops the cached set
CacheAfterFailure_Cleared(tools, time) == [tools |-> Null, time |-> 0]

\* the catch block of fetchGitBookTools assigns neither variable
CacheAfterFailure(tools, time) == [tools |-> tools, time |-> time]

\* variant: clearGitBookCache does nothing
ClearedCache_Noop == [tools |-> cachedTools, time |-> toolsCacheTime]

\* variant: clearGitBookCache leaves the timestamp
ClearedCache_KeepsTime == [tools |-> Null, time |-> toolsCacheTime]

\* clearGitBookCache: cachedTools = null; toolsCacheTime = 0
ClearedCache == [tools |-> Null, time |-> 0]

\* where a call continues once its fetchGitBookTools promise has settled
AfterFetch(op) == IF op = "register" THEN "ret" ELSE "done"

\* fetchGitBookTools up to its first await, entered at time t with the
\* cache (tools, time): a fresh cache is returned at once, otherwise the
\* initialize handshake is sent
FetchEnter(call, tools, time, t) ==
  IF CacheFresh(tools, time, t)
  THEN [call EXCEPT !.hit = TRUE, !.ret = tools.tools, !.pc = AfterFetch(call.op)]
  ELSE [call EXCEPT !.pc = "init"]

Started == {c \in Calls : calls[c].op # "none"}
\* call slots are taken in order
NextSlot(c) == c = Cardinality(Started) + 1

NewCall(c, op, s) ==
  [IdleCall EXCEPT !.op = op, !.srv = s,
                   !.after = clean,
                   !.afterOk = (okSince # 0 /\ now - okSince < TOOLS_CACHE_DURATION),
                   !.forced = afterClear]

\* a direct fetchGitBookTools() call (warm-up, docs_list_tools,
\* getGitBookToolNames, checkGitBookHealth)
GetTools(c) ==
  /\ NextSlot(c)
  /\ c <= MaxCacheCalls
  /\ LET call == FetchEnter(NewCall(c, "getTools", 0), cachedTools, toolsCacheTime, now)
     IN /\ calls' = [calls EXCEPT ![c] = call]
        /\ clean' = (clean \/ call.hit)
        /\ okSince' = IF call.hit THEN toolsCacheTime ELSE okSince
  /\ afterClear' = FALSE
  /\ UNCHANGED <<now, cachedTools, toolsCacheTime, metaToolsRegistered, registry,
                 created, metaRuns>>
  /\ UNCHANGED toolVars
  /\ UNCHANGED appVars

\* clearGitBookCache()
Invalidate ==
  /\ cachedTools' = ClearedCache.tools
  /\ toolsCacheTime' = ClearedCache.time
  /\ clean' = FALSE
  /\ okSince' = 0
  /\ afterClear' = TRUE
  /\ UNCHANGED <<now, metaToolsRegistered, registry, created, calls,
                 metaRuns>>
  /\ UNCHANGED toolVars
  /\ UNCHANGED appVars

\* the docs_refresh handler up to its first await: clearGitBookCache(),
\* then fetchGitBookTools() on the cleared cache
DocsRefresh(c) ==
  /\ NextSlot(c)
  /\ c <= MaxCacheCalls
  /\ cachedTools' = ClearedCache.tools
  /\ toolsCacheTime' = ClearedCache.time
  /\ afterClear' = FALSE
  /\ LET new == [NewCall(c, "refresh", 0) EXCEPT
                   !.wrote = (cachedTools # ClearedCache.tools),
                   !.after = FALSE, !.afterOk = FALSE, !.forced = TRUE]
         call == FetchEnter(new, ClearedCache.tools, ClearedCache.time, now)
     IN /\ calls' = [calls EXCEPT ![c] = call]
        /\ clean' = call.hit
        /\ okSince' = 0
  /\ UNCHANGED <<now, metaToolsRegistered, registry, created, metaRuns>>
  /\ UNCHANGED toolVars
  /\ UNCHANGED appVars

\* initializeConnection settles (it catches its own failures), and
\* sendMcpRequest("tools/list") is posted
InitDone(c) ==
  /\ calls[c].pc = "init"
  /\ calls' = [calls EXCEPT ![c].pc = "list", ![c].reqs = calls[c].reqs + 1]
  /\ UNCHANGED <<now, cachedTools, toolsCacheTime, metaToolsRegistered, registry,
                 created, okSince, clean, metaRuns, afterClear>>
  /\ UNCHANGED toolVars
  /\ UNCHANGED appVars

\* the tools/list POST settles with reply: the try block stores the whole
\* list and the time, the catch block falls back on the cache
ListDone(c, reply) ==
  /\ calls[c].pc = "list"
  /\ IF ListThrows(reply)
     THEN LET kept == CacheAfterFailure(cachedTools, toolsCacheTime)
          IN /\ cachedTools' = kept.tools
             /\ toolsCacheTime' = kept.time
             /\ calls' = [calls EXCEPT ![c].failed = TRUE,
                                       ![c].ret = FailReturn(cachedTools),
                                       ![c].wrote = (calls[c].wrote \/ kept.tools # cachedTools),
                                       ![c].pc = AfterFetch(calls[c].op)]
             /\ UNCHANGED okSince
     ELSE /\ cachedTools' = StoredCache(reply, now).tools
          /\ toolsCacheTime' = StoredCache(reply, now).time
          /\ okSince' = now
          /\ calls' = [calls EXCEPT ![c].got = ResultTools(reply),
                                    ![c].ret = StoredCache(reply, now).tools.tools,
                                    ![c].wrote = TRUE,
                                    ![c].pc = AfterFetch(calls[c].op)]
  /\ clean' = TRUE
  /\ UNCHANGED <<now, metaToolsRegistered, registry, created, metaRuns,
                 afterClear>>
  /\ UNCHANGED toolVars
  /\ UNCHANGED appVars

TicksTaken ==
  LET e == now - StartTime
  IN e \div (TOOLS_CACHE_DURATION \div 2)

\* time passes between two callbacks
Tick(d) ==
  /\ TicksTaken < MaxTicks
  /\ now' = now + d
  /\ UNCHANGED <<cachedTools, toolsCacheTime, metaToolsRegistered, registry,
                 created, calls, okSince, clean, metaRuns, afterClear>>
  /\ UNCHANGED toolVars
  /\ UNCHANGED appVars


(* --------------------- tools/gitbookProxy.ts -------------------------- *)
\* variant: 'integer' falls through to the default branch
KindOf_IntegerAny(type) ==
  CASE type = "string" -> "string"
    [] type = "number" -> "number"
    [] type = "boolean" -> "boolean"
    [] type = "array" -> "array"
    [] type = "object" -> "object"
    [] OTHER -> "any"

\* switch (propDef.type): z.string(), z.number(), z.boolean(),
\* z.array(z.unknown()), z.record(z.unknown()), default z.unknown()
KindOf(type) ==
  CASE type = "string" -> "string"
    [] type \in {"number", "integer"} -> "number"
    [] type = "boolean" -> "boolean"
    [] type = "array" -> "array"
    [] type = "object" -> "object"
    [] OTHER -> "any"

\* propDef.type is a TypeError when the entry is null; on any other
\* non-object it reads undefined
PropThrows(def) == def.form = "null"

\* required.includes(key) is a TypeError when required is truthy and has
\* no includes method
IncludesThrows(req) == req.form = "other"

\* const required = inputSchema.required || []
RequiredNames(req) == IF req.form = "list" THEN req.names ELSE {}

\* if (!inputSchema.properties || Object.keys(inputSchema.properties).length === 0)
EmptyShape(schema) ==
  ~schema.properties.has \/ DOMAIN schema.properties.defs = {}

\* one pass of the for loop: the validator kind, optional() unless the
\* key is in required
FieldSchema(def, key, req) ==
  [kind |-> KindOf(def.type), optional |-> key \notin RequiredNames(req)]

\* convertToZodSchema(inputSchema): the z.object shape, or the exception
\* (inputSchema undefined, a null entry, required without includes)
ConvertToZodSchema(schema) ==
  IF ~schema.present THEN [threw |-> TRUE, shape |-> EmptyDefs]
  ELSE IF EmptyShape(schema) THEN [threw |-> FALSE, shape |-> EmptyDefs]
  ELSE LET defs == schema.properties.defs
           req == schema.required
       IN IF \E k \in DOMAIN defs : PropThrows(defs[k]) \/ IncludesThrows(req)
          THEN [threw |-> TRUE, shape |-> EmptyDefs]
          ELSE [threw |-> FALSE,
                shape |-> [k \in DOMAIN defs |-> FieldSchema(defs[k], k, req)]]

\* zod: what the validator of one key makes of an argument object; a
\* missing key reads undefined, which optional() and z.unknown() accept
FieldAccepts(field, args, k) ==
  IF k \notin DOMAIN args
  THEN field.optional \/ field.kind = "any"
  ELSE field.kind = "any" \/ field.kind = args[k].kind

\* variant: z.object(shape).strict()
ZodAccepts_Strict(shape, args) ==
  /\ DOMAIN args \subseteq DOMAIN shape
  /\ \A k \in DOMAIN shape : FieldAccepts(shape[k], args, k)

\* z.object(shape).safeParse(args).success: every key of the shape is
\* checked, keys outside the shape are stripped
ZodAccepts(shape, args) ==
  \A k \in DOMAIN shape : FieldAccepts(shape[k], args, k)

\* variant: server.tool replaces a tool of the same name
ToolThrows_Never(reg, name) == FALSE

\* McpServer.tool(name, ...): a name already registered on the instance
\* is refused with an exception
ToolThrows(reg, name) == name \in reg

\* the order in which registerGitBookMetaTools calls server.tool
MetaOrder == <<DocsName("health"), DocsName("refresh"), DocsName("list_tools")>>

\* registerGitBookMetaTools(server): the three server.tool calls in order,
\* stopping at the first one that throws
RECURSIVE RegisterEach(_, _)
RegisterEach(reg, names) ==
  IF names = <<>> THEN [reg |-> reg, threw |-> FALSE]
  ELSE IF ToolThrows(reg, Head(names)) THEN [reg |-> reg, threw |-> TRUE]
  ELSE RegisterEach(reg \cup {Head(names)}, Tail(names))

RegisterGitBookMetaTools(reg) == RegisterEach(reg, MetaOrder)

\* variant: the guard is never set
GuardAfterMeta_NotSet == FALSE

\* metaToolsRegistered = true, after registerGitBookMetaTools has returned
GuardAfterMeta == TRUE

\* the body of the inner try for one tool throws: convertToZodSchema, or
\* server.tool on a name the instance already has
RegistrationThrows(reg, tool) ==
  ConvertToZodSchema(RemoteSchema(tool)).threw \/ ToolThrows(reg, DocsName(tool))

\* variant: no inner try/catch, the first throw ends the loop in the outer
\* catch
RECURSIVE RegisterProxies_AbortOnThrow(_, _, _)
RegisterProxies_AbortOnThrow(reg, tools, n) ==
  IF tools = <<>> THEN [reg |-> reg, count |-> n]
  ELSE IF RegistrationThrows(reg, Head(tools))
       THEN [reg |-> reg, count |-> n]
       ELSE RegisterProxies_AbortOnThrow(reg \cup {DocsName(Head(tools))},
                                         Tail(tools), n + 1)

\* the loop of registerGitBookProxyTools over the fetched tools: a tool
\* whose schema translation or server.tool call throws is caught, logged
\* and skipped; registeredCount counts the others
RECURSIVE RegisterProxies(_, _, _)
RegisterProxies(reg, tools, n) ==
  IF tools = <<>> THEN [reg |-> reg, count |-> n]
  ELSE IF RegistrationThrows(reg, Head(tools))
       THEN RegisterProxies(reg, Tail(tools), n)
       ELSE RegisterProxies(reg \cup {DocsName(Head(tools))}, Tail(tools), n + 1)

\* registerGitBookProxyTools(server) up to its first await, on a server
\* whose registry is reg0: the guarded meta-tool registration, then
\* fetchGitBookTools() up to its own first await
RegisterEnter(c, s, reg0) ==
  LET new == NewCall(c, "register", s)
  IN IF ~metaToolsRegistered
     THEN LET m == RegisterGitBookMetaTools(reg0)
          IN /\ metaRuns' = metaRuns + 1
             /\ registry' = [registry EXCEPT ![s] = m.reg]
             /\ IF m.threw
                THEN /\ calls' = [calls EXCEPT ![c] =
                           [new EXCEPT !.threw = TRUE, !.metaBy = TRUE, !.pc = "done"]]
                     /\ UNCHANGED <<metaToolsRegistered, clean, okSince, afterClear>>
                ELSE LET call == FetchEnter([new EXCEPT !.metaBy = TRUE],
                                            cachedTools, toolsCacheTime, now)
                     IN /\ metaToolsRegistered' = GuardAfterMeta
                        /\ calls' = [calls EXCEPT ![c] = call]
                        /\ clean' = (clean \/ call.hit)
                        /\ okSince' = IF call.hit THEN toolsCacheTime ELSE okSince
                        /\ afterClear' = FALSE
     ELSE LET call == FetchEnter(new, cachedTools, toolsCacheTime, now)
          IN /\ calls' = [calls EXCEPT ![c] = call]
             /\ registry' = [registry EXCEPT ![s] = reg0]
             /\ clean' = (clean \/ call.hit)
             /\ okSince' = IF call.hit THEN toolsCacheTime ELSE okSince
             /\ afterClear' = FALSE
             /\ UNCHANGED <<metaToolsRegistered, metaRuns>>

\* variant: one module-level McpServer serves every request
NewServer_Shared(made) == 1

\* new McpServer(...): an instance that did not exist before
NewServer(made) == Cardinality(made) + 1

\* index.ts createServer(): new McpServer, withAnalytics,
\* registerSodaxApiTools, then registerGitBookProxyTools(server)
CreateServer(c) ==
  /\ NextSlot(c)
  /\ Cardinality(created) < MaxServers
  /\ LET s == NewServer(created)
     IN /\ created' = created \cup {s}
        /\ RegisterEnter(c, s, SodaxTools)
  /\ UNCHANGED <<now, cachedTools, toolsCacheTime>>
  /\ UNCHANGED toolVars
  /\ UNCHANGED appVars

\* registerGitBookProxyTools(server) called again on an instance whose
\* earlier registration calls have all returned
Register(c, s) ==
  /\ NextSlot(c)
  /\ s \in created
  /\ \A d \in Calls : calls[d].srv = s => calls[d].pc = "done"
  /\ RegisterEnter(c, s, registry[s])
  /\ UNCHANGED <<now, cachedTools, toolsCacheTime, created>>
  /\ UNCHANGED toolVars
  /\ UNCHANGED appVars

\* registerGitBookProxyTools after `await fetchGitBookTools()`: return 0 on
\* an empty list, else register one docs_ proxy per tool
RegisterFinish(c) ==
  /\ calls[c].op = "register"
  /\ calls[c].pc = "ret"
  /\ LET s == calls[c].srv
         r == RegisterProxies(registry[s], calls[c].ret, 0)
     IN /\ registry' = [registry EXCEPT ![s] = r.reg]
        /\ calls' = [calls EXCEPT ![c].pc = "done", ![c].count = r.count]
  /\ UNCHANGED <<now, cachedTools, toolsCacheTime, metaToolsRegistered, created,
                 okSince, clean, metaRuns, afterClear>>
  /\ UNCHANGED toolVars
  /\ UNCHANGED appVars

(* ----------- callGitBookTool and the docs_ tool handlers --------------- *)
\* content blocks in one upstream result
MaxBlocks == 2

\* the module state of the sections above, untouched by a proxied call
serverVars == <<metaToolsRegistered, registry, created, calls, okSince, clean,
                metaRuns, afterClear>>

BlockTexts == {<<>>, <<"Swap guide">>}
\* GitBookToolResult["content"][number]: { type, text?, [key]: unknown };
\* a text block with its text missing, empty or set, and an image block,
\* which carries its data in another member
Blocks ==
  [type : {"text"}, text : {Absent} \cup {Present(t) : t \in BlockTexts},
   extra : {Absent}]
    \cup [type : {"image"}, text : {Absent} \cup {Present(t) : t \in BlockTexts},
          extra : {Present(<<"iVBORw0KGgo=">>)}]
Contents == UNION {[1..n -> Blocks] : n \in 0..MaxBlocks}
\* isError?: boolean
Flags == {"absent", "false", "true"}

\* What comes back for the tools/call POST: the transport fails, the body
\* carries error (with or without a message), the body has no result, or
\* it has a result, whose content may be missing
CallReplies ==
  [kind : {"unreachable", "timeout", "rpcError", "rpcErrorNoMessage", "noResult"},
   hasContent : {FALSE}, content : {<<>>}, isError : {"absent"}]
    \cup [kind : {"result"}, hasContent : {FALSE}, content : {<<>>}, isError : Flags]
    \cup [kind : {"result"}, hasContent : {TRUE}, content : Contents, isError : Flags]

\* the arguments a handler is called with
ToolArgs ==
  {a \in ArgObjects :
     \A k \in DOMAIN a : \/ k = "query" /\ a[k].kind = "string"
                         \/ k = "page" /\ a[k].kind = "number"}

\* sendMcpRequest("tools/call") throws: axios rejects (timeout: 30000), or
\* response.data.error is set
CallThrows(reply) ==
  reply.kind \in {"unreachable", "timeout", "rpcError", "rpcErrorNoMessage"}

\* error.message of what sendMcpRequest threw
ErrorMessage(reply) ==
  CASE reply.kind = "unreachable" -> "getaddrinfo ENOTFOUND docs.sodax.com"
    [] reply.kind = "timeout" -> "timeout of 30000ms exceeded"
    [] reply.kind = "rpcError" -> "Tool not found"
    [] OTHER -> "MCP request failed"

\* variant: the request carries no arguments
CallParams_NoArgs(name, args) == [name |-> name, arguments |-> EmptyArgs]

\* { name: toolName, arguments: args }
CallParams(name, args) == [name |-> name, arguments |-> args]

Request(method, params) == [method |-> method, params |-> params]
NoParams == [name |-> "", arguments |-> EmptyArgs]

\* variant: no catch block, the exception reaches the caller
CallCatch_Rethrow(reply) ==
  [threw |-> TRUE, defined |-> FALSE, hasContent |-> FALSE, content |-> <<>>,
   isError |-> "absent"]

\* the catch block of callGitBookTool
CallCatch(reply) ==
  [threw |-> FALSE, defined |-> TRUE, hasContent |-> TRUE,
   content |-> <<TextBlock(<<"Error calling GitBook tool: ", ErrorMessage(reply)>>)>>,
   isError |-> "true"]

\* what callGitBookTool returns once the tools/call POST has settled:
\* response.data.result as it is (undefined when the body has none), or
\* the catch block's result
CallGitBookTool(reply) ==
  IF CallThrows(reply) THEN CallCatch(reply)
  ELSE IF reply.kind = "noResult" THEN NoResult
  ELSE [threw |-> FALSE, defined |-> TRUE, hasContent |-> reply.hasContent,
        content |-> reply.content, isError |-> reply.isError]

\* a JavaScript string is truthy unless missing or empty
Truthy(text) == text.has /\ text.val # <<>>

\* JSON.stringify(c)
Stringify(c) ==
  <<"{type:", c.type>>
    \o (IF c.text.has THEN <<",text:">> \o c.text.val ELSE <<>>)
    \o (IF c.extra.has THEN <<",data:">> \o c.extra.val ELSE <<>>)
    \o <<"}">>

\* c => ({ type: c.type, text: c.text || JSON.stringify(c) })
MappedBlock(c) ==
  [type |-> c.type,
   text |-> Present(IF Truthy(c.text) THEN c.text.val ELSE Stringify(c)),
   extra |-> Absent]

\* result.content[0]?.text || "Unknown error"
FirstDetail(content) ==
  IF content # <<>> /\ Truthy(content[1].text)
  THEN content[1].text.val
  ELSE <<"Unknown error">>

Hint ==
  <<"Try ", "docs_refresh", " to reconnect, or visit ", "https://docs.sodax.com",
    " directly.">>

\* the text of the failure response of docs_<name>
FailureText(name, content) ==
  <<"docs_", name, " failed: ">> \o FirstDetail(content) \o Hint

\* a handler that ended in an exception
Thrown == [threw |-> TRUE, answered |-> FALSE, content |-> <<>>, isError |-> "absent"]
Answer(content, flag) ==
  [threw |-> FALSE, answered |-> TRUE, content |-> content, isError |-> flag]

\* the proxied handler after `await callGitBookTool(tool.name, args)`:
\* result.isError on undefined, result.content[0] and result.content.map
\* on a missing content are TypeErrors
ProxyHandler(name, result) ==
  IF result.threw \/ ~result.defined THEN Thrown
  ELSE IF result.isError = "true"
       THEN IF ~result.hasContent THEN Thrown
            ELSE Answer(<<TextBlock(FailureText(name, result.content))>>, "true")
       ELSE IF ~result.hasContent THEN Thrown
            ELSE Answer([i \in 1..Len(result.content) |-> MappedBlock(result.content[i])],
                        result.isError)

\* the remote name the handler registered as docs_<name> closes over
HandlerTool(local) == local[2]

\* const TOOL_GROUPS: the names listed and their groups
TOOL_GROUPS ==
  [t \in { <<"sodax_", n>> : n \in
             {"get_supported_chains", "get_swap_tokens", "get_transaction",
              "get_user_transactions", "get_volume", "get_orderbook",
              "get_money_market_assets", "get_user_position", "get_partners",
              "get_token_supply", "refresh_cache"} }
          \cup { <<"docs_", n>> : n \in {"health", "refresh", "list_tools"} }
     |-> IF t[1] = "sodax_" THEN "api" ELSE "sdk-docs"]

\* variant: no prefix fallback
ResolveToolGroup_NoFallback(toolName) ==
  IF toolName \in DOMAIN TOOL_GROUPS THEN TOOL_GROUPS[toolName] ELSE "unknown"

\* resolveToolGroup: the static map, then toolName.startsWith("docs_")
ResolveToolGroup(toolName) ==
  IF toolName \in DOMAIN TOOL_GROUPS THEN TOOL_GROUPS[toolName]
  ELSE IF toolName[1] = "docs_" THEN "sdk-docs"
  ELSE "unknown"

\* trackToolCall: without POSTHOG_API_KEY getClient() is null and nothing
\* is captured; the events captured otherwise
TrackToolCall(key, toolName, success, error) ==
  IF ~key THEN <<>>
  ELSE <<[event |-> "tool_called", tool_name |-> toolName,
          tool_group |-> ResolveToolGroup(toolName), success |-> success,
          error_message |-> error]>>

\* variant: the wrapper's catch block answers instead of rethrowing
WithAnalytics_Swallow(key, toolName, resp) ==
  LET error == IF resp.threw THEN Present(<<"TypeError">>) ELSE Absent
  IN [out |-> IF resp.threw THEN Answer(<<>>, "true") ELSE resp,
      tracked |-> <<[tool_name |-> toolName, success |-> ~resp.threw, error |-> error]>>,
      captured |-> TrackToolCall(key, toolName, ~resp.threw, error)]

\* the handler installed by the patched server.tool, once the original
\* handler has ended with resp: one trackToolCall in the try or in the
\* catch block (String(err) of the TypeError), then return or rethrow
WithAnalytics(key, toolName, resp) ==
  LET error == IF resp.threw THEN Present(<<"TypeError">>) ELSE Absent
  IN [out |-> resp,
      tracked |-> <<[tool_name |-> toolName, success |-> ~resp.threw, error |-> error]>>,
      captured |-> TrackToolCall(key, toolName, ~resp.threw, error)]

\* the invocation record once the wrapped handler has ended
Tracked(i) ==
  IF i.pc # "done" THEN i
  ELSE LET w == WithAnalytics(posthogKey, i.tool, i.resp)
       IN [i EXCEPT !.out = w.out, !.tracked = w.tracked, !.captured = w.captured]

\* variant: callGitBookTool drops the cached list
CacheAfterCall_Cleared(tools, time) == [tools |-> Null, time |-> 0]

\* callGitBookTool assigns neither cachedTools nor toolsCacheTime
CacheAfterCall(tools, time) == [tools |-> tools, time |-> time]

\* pieces of the invocation record after callGitBookTool has posted tools/call
SendToolsCall(i) ==
  [i EXCEPT !.pc = "call",
            !.sent = Append(i.sent,
                       Request("tools/call", CallParams(HandlerTool(i.tool), i.args)))]

\* the request that follows initializeConnection(): tools/call in
\* callGitBookTool, tools/list in fetchGitBookTools
SendAfterHandshake(i) ==
  IF i.op = "proxy" THEN SendToolsCall(i)
  ELSE [i EXCEPT !.pc = "list",
                 !.sent = Append(i.sent, Request("tools/list", NoParams))]

\* variant: a failed initialize ends the operation
AfterInitialize_Abort(i, ok) ==
  IF ok
  THEN [i EXCEPT !.pc = "notify", !.initOk = "ok",
                 !.sent = Append(i.sent, Request("notifications/initialized", NoParams))]
  ELSE [i EXCEPT !.pc = "done", !.initOk = "failed", !.left = 0]

\* initializeConnection once the initialize POST has settled: on success
\* the initialized notification is posted; on failure the catch block
\* logs and the caller goes on
AfterInitialize(i, ok) ==
  IF ok
  THEN [i EXCEPT !.pc = "notify", !.initOk = "ok",
                 !.sent = Append(i.sent, Request("notifications/initialized", NoParams))]
  ELSE SendAfterHandshake([i EXCEPT !.initOk = "failed"])

\* a client calls the proxied tool `local` of an instance: the handler
\* enters callGitBookTool, which posts initialize
Invoke(local, args) ==
  /\ inv.pc \in {"idle", "done"}
  /\ \E s \in created : local \in registry[s]
  /\ IsDocs(local) /\ local \notin MetaTools
  /\ inv' = [IdleInv EXCEPT !.op = "proxy", !.pc = "init", !.tool = local,
                            !.args = args,
                            !.sent = <<Request("initialize", NoParams)>>]
  /\ UNCHANGED <<now, cachedTools, toolsCacheTime, batch, conv>>
  /\ UNCHANGED serverVars
  /\ UNCHANGED appVars

\* initializeConnection: the initialize POST settles
InitializeDone(ok) ==
  /\ inv.pc = "init"
  /\ inv' = AfterInitialize(inv, ok)
  /\ UNCHANGED <<now, cachedTools, toolsCacheTime, batch, conv>>
  /\ UNCHANGED serverVars
  /\ UNCHANGED appVars

\* the notification POST settles, either way the request is posted
NotifyDone(ok) ==
  /\ inv.pc = "notify"
  /\ inv' = SendAfterHandshake(inv)
  /\ UNCHANGED <<now, cachedTools, toolsCacheTime, batch, conv>>
  /\ UNCHANGED serverVars
  /\ UNCHANGED appVars

\* the tools/call POST settles with reply: callGitBookTool returns and the
\* handler builds its response
CallDone(reply) ==
  /\ inv.op = "proxy" /\ inv.pc = "call"
  /\ LET result == CallGitBookTool(reply)
         kept == CacheAfterCall(cachedTools, toolsCacheTime)
     IN /\ inv' = Tracked([inv EXCEPT !.pc = "done", !.reply = reply, !.result = result,
                                      !.resp = ProxyHandler(HandlerTool(inv.tool), result)])
        /\ cachedTools' = kept.tools
        /\ toolsCacheTime' = kept.time
  /\ UNCHANGED <<now, batch, conv>>
  /\ UNCHANGED serverVars
  /\ UNCHANGED appVars

\* building one parameter line of docs_list_tools throws on a tool
\* without inputSchema, on a null entry, and on a required that has no
\* includes method
ListEntryThrows(schema) ==
  \/ ~schema.present
  \/ /\ schema.properties.has
     /\ \E k \in DOMAIN schema.properties.defs :
          IncludesThrows(schema.required) \/ PropThrows(schema.properties.defs[k])

\* fetchGitBookTools calls in the handler: docs_health calls
\* checkGitBookHealth() and then fetchGitBookTools()
MetaFetches(local) == IF local = DocsName("health") THEN 2 ELSE 1

\* the response a meta-tool handler builds from the list its last
\* fetchGitBookTools call returned
MetaResponse(local, tools) ==
  IF local = DocsName("list_tools")
  THEN IF tools = <<>>
       THEN Answer(<<TextBlock(<<"No SDK documentation tools available.">>)>>, "absent")
       ELSE IF \E i \in 1..Len(tools) : ListEntryThrows(RemoteSchema(tools[i]))
            THEN Thrown
            ELSE Answer(<<TextBlock(<<"# SDK Documentation Tools">> \o tools)>>, "absent")
  ELSE IF local = DocsName("refresh")
  THEN IF tools = <<>>
       THEN Answer(<<TextBlock(<<"Could not connect to docs.sodax.com">>)>>, "absent")
       ELSE Answer(<<TextBlock(<<"Refreshed.">> \o tools)>>, "absent")
  ELSE IF tools # <<>>
       THEN Answer(<<TextBlock(<<"SDK Docs available.">> \o tools)>>, "absent")
       ELSE Answer(<<TextBlock(<<"SDK Docs temporarily unavailable.">>)>>, "absent")

\* the handler at a fetchGitBookTools call with the cache (tools, time): a
\* fresh cache serves this and every later call of the handler, which
\* then answers; otherwise initialize is posted
MetaFetch(i, cache) ==
  IF CacheFresh(cache.tools, cache.time, now)
  THEN [i EXCEPT !.pc = "done", !.left = 0,
                 !.toolCount = IF i.left = 2 THEN Len(cache.tools.tools)
                               ELSE i.toolCount,
                 !.resp = MetaResponse(i.tool, cache.tools.tools)]
  ELSE [i EXCEPT !.pc = "init",
                 !.sent = Append(i.sent, Request("initialize", NoParams))]

\* a client calls docs_health, docs_refresh or docs_list_tools;
\* docs_refresh starts with clearGitBookCache()
MetaInvoke(local) ==
  /\ inv.pc \in {"idle", "done"}
  /\ \E s \in created : local \in registry[s]
  /\ local \in MetaTools
  /\ LET cache == IF local = DocsName("refresh")
                  THEN ClearedCache
                  ELSE [tools |-> cachedTools, time |-> toolsCacheTime]
         new == [IdleInv EXCEPT !.op = "meta", !.tool = local,
                                !.left = MetaFetches(local)]
     IN /\ cachedTools' = cache.tools
        /\ toolsCacheTime' = cache.time
        /\ inv' = Tracked(MetaFetch(new, cache))
  /\ UNCHANGED <<now, batch, conv>>
  /\ UNCHANGED serverVars
  /\ UNCHANGED appVars

\* variant: a handler's fetch registers a proxy for every tool it got
RegistryAfterFetch_Synced(reg, tools) ==
  [s \in Servers |->
     IF s \in created THEN reg[s] \cup {DocsName(tools[i]) : i \in 1..Len(tools)}
     ELSE reg[s]]

\* the meta-tool handlers call fetchGitBookTools and build a text; none of
\* them calls server.tool
RegistryAfterFetch(reg, tools) == reg

\* the handler's tools/list POST settles with reply (after its handshake):
\* fetchGitBookTools stores or falls back, and the handler makes its next
\* fetchGitBookTools call or answers
MetaSettle(reply) ==
  /\ inv.op = "meta" /\ inv.pc = "list"
  /\ LET cache == IF ListThrows(reply)
                  THEN CacheAfterFailure(cachedTools, toolsCacheTime)
                  ELSE StoredCache(reply, now)
         tools == IF ListThrows(reply) THEN FailReturn(cachedTools)
                  ELSE ResultTools(reply)
     IN /\ cachedTools' = cache.tools
        /\ toolsCacheTime' = cache.time
        /\ inv' = Tracked(IF inv.left = 1
                          THEN [inv EXCEPT !.pc = "done", !.left = 0,
                                           !.resp = MetaResponse(inv.tool, tools)]
                          ELSE MetaFetch([inv EXCEPT !.left = inv.left - 1,
                                                     !.toolCount = Len(tools)],
                                         cache))
        /\ registry' = RegistryAfterFetch(registry, tools)
  /\ UNCHANGED <<now, batch, conv>>
  /\ UNCHANGED <<metaToolsRegistered, created, calls, okSince, clean, metaRuns,
                 afterClear>>
  /\ UNCHANGED appVars

\* tool lists a warm-up can have left in the cache
ListedLists == {<<"search">>, <<"getPage", "search">>, <<"search", "noSchema">>}

\* one instance after createServer() and registerGitBookProxyTools(server)
\* have completed on the list l, stored by that call's fetch
ServingInit ==
  \E l \in ListedLists :
    /\ now = StartTime
    /\ cachedTools = Some(l)
    /\ toolsCacheTime = StartTime
    /\ metaToolsRegistered = GuardAfterMeta
    /\ created = {1}
    /\ registry = [s \in Servers |->
                     IF s = 1
                     THEN RegisterProxies(RegisterGitBookMetaTools(SodaxTools).reg, l, 0).reg
                     ELSE {}]
    /\ calls = [c \in Calls |-> IdleCall]
    /\ okSince = 0
    /\ clean = FALSE
    /\ metaRuns = 1
    /\ afterClear = FALSE
    /\ inv = IdleInv
    /\ batch = IdleBatch
    /\ conv = IdleConv
    /\ AppIdle
    /\ posthogKey \in BOOLEAN

(* ------------------- the registration loop on its own ------------------ *)
\* tools in one fetched list
MaxBatch == 3
BatchLists == UNION {[1..n -> RemoteNames] : n \in 0..MaxBatch}

\* an instance holding the sodax and meta tools, or these and a docs_search
\* from an earlier registration, about to run the loop on a fetched list
BatchInit ==
  /\ now = StartTime
  /\ cachedTools = Null
  /\ toolsCacheTime = 0
  /\ metaToolsRegistered = GuardAfterMeta
  /\ created = {1}
  /\ \E extra \in SUBSET {DocsName("search")} :
       registry = [s \in Servers |->
                     IF s = 1
                     THEN RegisterGitBookMetaTools(SodaxTools).reg \cup extra
                     ELSE {}]
  /\ calls = [c \in Calls |-> IdleCall]
  /\ okSince = 0
  /\ clean = FALSE
  /\ metaRuns = 1
  /\ afterClear = FALSE
  /\ inv = IdleInv
  /\ \E l \in BatchLists : batch = [IdleBatch EXCEPT !.pc = "input", !.tools = l]
  /\ conv = IdleConv
  /\ AppIdle
  /\ posthogKey = FALSE

\* the third argument of server.tool for the proxy of a remote tool:
\* zodSchema is always a ZodObject, so its shape
ProxyParams(tool) == ConvertToZodSchema(RemoteSchema(tool)).shape

\* lines 95-142 of registerGitBookProxyTools on the list batch.tools
RegisterLoop ==
  /\ batch.pc = "input"
  /\ LET r == RegisterProxies(registry[1], batch.tools, 0)
     IN /\ registry' = [registry EXCEPT ![1] = r.reg]
        /\ batch' = [batch EXCEPT !.pc = "done", !.before = registry[1],
                                  !.count = r.count,
                                  !.params = [n \in r.reg \ registry[1] |->
                                                ProxyParams(HandlerTool(n))]]
  /\ UNCHANGED <<now, cachedTools, toolsCacheTime, metaToolsRegistered, created,
                 calls, okSince, clean, metaRuns, afterClear, inv, conv>>
  /\ UNCHANGED appVars

(* ------------------- schema translation on its own --------------------- *)
\* a schema received from the remote server, not yet translated
SchemaInit ==
  /\ now = StartTime
  /\ cachedTools = Null
  /\ toolsCacheTime = 0
  /\ metaToolsRegistered = FALSE
  /\ registry = [s \in Servers |-> {}]
  /\ created = {}
  /\ calls = [c \in Calls |-> IdleCall]
  /\ okSince = 0
  /\ clean = FALSE
  /\ metaRuns = 0
  /\ afterClear = FALSE
  /\ inv = IdleInv
  /\ batch = IdleBatch
  /\ \E sch \in Schemas : conv = [IdleConv EXCEPT !.pc = "input", !.schema = sch]
  /\ AppIdle
  /\ posthogKey = FALSE

\* convertToZodSchema(tool.inputSchema)
Convert ==
  /\ conv.pc = "input"
  /\ conv' = [conv EXCEPT !.pc = "converted", !.out = ConvertToZodSchema(conv.schema)]
  /\ UNCHANGED <<now, cachedTools, toolsCacheTime, inv, batch>>
  /\ UNCHANGED serverVars
  /\ UNCHANGED appVars

\* the server validates the arguments of a call against the translated shape
Validate(args) ==
  /\ conv.pc = "converted"
  /\ ~conv.out.threw
  /\ conv' = [conv EXCEPT !.pc = "checked", !.args = args,
                          !.ok = ZodAccepts(conv.out.shape, args)]
  /\ UNCHANGED <<now, cachedTools, toolsCacheTime, inv, batch>>
  /\ UNCHANGED serverVars
  /\ UNCHANGED appVars

(* ---------------- callers of fetchGitBookTools: status ------------------ *)
\* getGitBookToolNames() on a settled fetchGitBookTools call: the try block
\* maps and appends, the catch block returns the three fixed names
GetGitBookToolNames(call) ==
  IF call.threw THEN MetaOrder
  ELSE [i \in 1..Len(call.ret) |-> DocsName(call.ret[i])] \o MetaOrder

\* checkGitBookHealth() on a settled fetchGitBookTools call
CheckGitBookHealth(call) ==
  IF call.threw THEN [healthy |-> FALSE, toolCount |-> 0]
  ELSE [healthy |-> TRUE, toolCount |-> Len(call.ret)]

(* ------------------------- index.ts: start-up -------------------------- *)
\* const MAX_GITBOOK_RETRIES = 3
MAX_GITBOOK_RETRIES == 3
\* const GITBOOK_RETRY_DELAY = 5000
GITBOOK_RETRY_DELAY == 5000

\* variant: the retry test written with <=
RetryAllowed_Inclusive(retryCount) == retryCount <= MAX_GITBOOK_RETRIES - 1

\* if (retryCount < MAX_GITBOOK_RETRIES - 1)
RetryAllowed(retryCount) == retryCount < MAX_GITBOOK_RETRIES - 1

\* variant: the exhausted warm-up rejects, and main().catch ends the process
ExhaustedOutcome_Exit == "exited"

\* warmGitBookCache after the last attempt: return false to runStdio/runHTTP
ExhaustedOutcome == "warmed"

\* warmGitBookCache after `await fetchGitBookTools()` has returned tools at
\* time t: return true, start the retry timer, or give up
AfterAttempt(b, tools, t) ==
  IF tools # <<>>
  THEN [b EXCEPT !.pc = "warmed", !.tools = tools, !.returned = TRUE,
                 !.ret = TRUE, !.got = TRUE]
  ELSE IF RetryAllowed(b.retryCount)
       THEN [b EXCEPT !.pc = "delay", !.tools = tools, !.since = t]
       ELSE [b EXCEPT !.pc = ExhaustedOutcome, !.tools = tools, !.returned = TRUE,
                      !.ret = FALSE]

\* warmGitBookCache(retryCount) up to its first suspension, entered at
\* time t: fetchGitBookTools is served from a fresh cache or goes upstream
WarmAttempt(b, t) ==
  IF CacheFresh(cachedTools, toolsCacheTime, t)
  THEN AfterAttempt(b, cachedTools.tools, t)
  ELSE [b EXCEPT !.pc = "fetch", !.upstream = b.upstream + 1]

\* gitbookToolsRegistered = tools.length > 0, once the attempt has its tools
RegisteredAfter(b) ==
  IF b.pc = "fetch" THEN gitbookToolsRegistered ELSE b.tools # <<>>

\* main(): runStdio() or runHTTP() by TRANSPORT, each starting with
\* warmGitBookCache()
Main(transport) ==
  /\ boot.pc = "idle"
  /\ gitbookInitAttempts' = gitbookInitAttempts + 1
  /\ LET b == WarmAttempt([IdleBoot EXCEPT !.transport = transport], now)
     IN /\ boot' = b
        /\ gitbookToolsRegistered' = RegisteredAfter(b)
  /\ UNCHANGED <<now, cachedTools, toolsCacheTime, posthogKey, restCache, rest>>
  /\ UNCHANGED serverVars
  /\ UNCHANGED toolVars

\* the tools/list POST of a warm-up attempt settles with reply (after its
\* handshake)
WarmSettle(reply) ==
  /\ boot.pc = "fetch"
  /\ LET stored == IF ListThrows(reply)
                   THEN CacheAfterFailure(cachedTools, toolsCacheTime)
                   ELSE StoredCache(reply, now)
         tools == IF ListThrows(reply) THEN FailReturn(cachedTools)
                  ELSE ResultTools(reply)
         b == AfterAttempt([boot EXCEPT !.failed = ListThrows(reply)], tools, now)
     IN /\ cachedTools' = stored.tools
        /\ toolsCacheTime' = stored.time
        /\ boot' = b
        /\ gitbookToolsRegistered' = RegisteredAfter(b)
  /\ UNCHANGED <<now, gitbookInitAttempts, posthogKey, restCache, rest>>
  /\ UNCHANGED serverVars
  /\ UNCHANGED toolVars

\* the retry timer fires GITBOOK_RETRY_DELAY after it was set, and
\* warmGitBookCache(retryCount + 1) is entered
DelayDone ==
  /\ boot.pc = "delay"
  /\ now' = now + GITBOOK_RETRY_DELAY
  /\ gitbookInitAttempts' = gitbookInitAttempts + 1
  /\ LET b == WarmAttempt([boot EXCEPT !.retryCount = boot.retryCount + 1,
                                       !.waited = boot.waited + 1,
                                       !.failed = FALSE],
                          now + GITBOOK_RETRY_DELAY)
     IN /\ boot' = b
        /\ gitbookToolsRegistered' = RegisteredAfter(b)
  /\ UNCHANGED <<cachedTools, toolsCacheTime, posthogKey, restCache, rest>>
  /\ UNCHANGED serverVars
  /\ UNCHANGED toolVars

\* runStdio after the warm-up: createServer()
RunStdioCreate ==
  /\ boot.pc = "warmed"
  /\ boot.transport = "stdio"
  /\ created = {}
  /\ CreateServer(1)

\* runStdio: `await createServer()` has settled; server.connect(transport),
\* or main().catch and process.exit(1) when createServer rejected
Connect ==
  /\ boot.pc = "warmed"
  /\ boot.transport = "stdio"
  /\ calls[1].op = "register" /\ calls[1].pc = "done"
  /\ boot' = [boot EXCEPT !.pc = IF calls[1].threw THEN "exited" ELSE "started"]
  /\ UNCHANGED <<now, cachedTools, toolsCacheTime, gitbookToolsRegistered,
                 gitbookInitAttempts, posthogKey, restCache, rest>>
  /\ UNCHANGED serverVars
  /\ UNCHANGED toolVars

\* runHTTP after the warm-up: the routes are set up and app.listen is called
Listen ==
  /\ boot.pc = "warmed"
  /\ boot.transport = "http"
  /\ boot' = [boot EXCEPT !.pc = "started"]
  /\ UNCHANGED <<now, cachedTools, toolsCacheTime, gitbookToolsRegistered,
                 gitbookInitAttempts, posthogKey, restCache, rest>>
  /\ UNCHANGED serverVars
  /\ UNCHANGED toolVars

\* POST /mcp on the listening server: createServer() for the request
PostMcp(c) ==
  /\ boot.pc = "started"
  /\ boot.transport = "http"
  /\ CreateServer(c)

\* GET /api on the listening server: getGitBookToolNames() enters
\* fetchGitBookTools
GetApi(c) ==
  /\ boot.pc = "started"
  /\ boot.transport = "http"
  /\ GetTools(c)

\* variant: the status follows the cached list
ApiProxyStatus_Live ==
  [status |-> IF ~cachedTools.isNull /\ cachedTools.tools # <<>>
              THEN "connected" ELSE "unavailable",
   initAttempts |-> gitbookInitAttempts]

\* GET /api: sdkDocsProxy.status and sdkDocsProxy.initAttempts
ApiProxyStatus ==
  [status |-> IF gitbookToolsRegistered THEN "connected" ELSE "unavailable",
   initAttempts |-> gitbookInitAttempts]

(* ------------------------ REST service: cache -------------------------- *)
\* export const CACHE_DURATION_MS = 2 * 60 * 1000
CACHE_DURATION_MS == 120000
MaxRestTicks == 3

\* response.data of a 200 reply: { data: A }, a bare B, or null
RestBodies ==
  {[kind |-> "wrapped", val |-> "A"], [kind |-> "plain", val |-> "B"],
   [kind |-> "null", val |-> "null"]}
\* the request fails (transport, timeout, status)
RestError == [kind |-> "error", val |-> ""]

\* response.data?.data || response.data, followed by || [] in
\* getSupportedChains and not in getTokenSupply
Unwrap(key, body) ==
  IF body.kind # "null" THEN body.val
  ELSE IF key = "chains" THEN "[]" ELSE "null"

\* the test `if (cached)`: an empty array is truthy, null is not
DataTruthy(data) == data # "null"

\* getCached(key) at time t: the value returned and the Map afterwards
GetCached(key, t) ==
  LET entry == restCache[key]
  IN IF ~entry.has
     THEN [data |-> "null", cache |-> restCache, dropped |-> FALSE]
     ELSE IF t - entry.timestamp > CACHE_DURATION_MS
          THEN [data |-> "null", cache |-> [restCache EXCEPT ![key] = NoEntry],
                dropped |-> TRUE]
          ELSE [data |-> entry.data, cache |-> restCache, dropped |-> FALSE]

\* getSupportedChains() / getTokenSupply() up to the first await
RestCall(key) ==
  /\ rest.pc \in {"idle", "done"}
  /\ LET g == GetCached(key, now)
         hit == DataTruthy(g.data)
     IN /\ restCache' = g.cache
        /\ rest' = [IdleRest EXCEPT
                      !.key = key,
                      !.had = restCache[key].has,
                      !.age = IF restCache[key].has
                              THEN now - restCache[key].timestamp ELSE 0,
                      !.dropped = g.dropped,
                      !.hit = hit,
                      !.ret = IF hit THEN g.data ELSE "",
                      !.reqs = IF hit THEN 0 ELSE 1,
                      !.pc = IF hit THEN "done" ELSE "get"]
  /\ UNCHANGED <<now, cachedTools, toolsCacheTime, gitbookToolsRegistered,
                 gitbookInitAttempts, boot, posthogKey>>
  /\ UNCHANGED serverVars
  /\ UNCHANGED toolVars

\* apiClient.get settles: setCache and return, or throw new Error(...)
RestSettle(reply) ==
  /\ rest.pc = "get"
  /\ IF reply.kind = "error"
     THEN /\ rest' = [rest EXCEPT !.pc = "done", !.threw = TRUE]
          /\ UNCHANGED restCache
     ELSE LET data == Unwrap(rest.key, reply)
          IN /\ restCache' = [restCache EXCEPT ![rest.key] =
                                [has |-> TRUE, data |-> data, timestamp |-> now]]
             /\ rest' = [rest EXCEPT !.pc = "done", !.ret = data, !.stored = TRUE]
  /\ UNCHANGED <<now, cachedTools, toolsCacheTime, gitbookToolsRegistered,
                 gitbookInitAttempts, boot, posthogKey>>
  /\ UNCHANGED serverVars
  /\ UNCHANGED toolVars

RestTicksTaken ==
  LET e == now - StartTime
  IN (e \div CACHE_DURATION_MS) + (e % CACHE_DURATION_MS)

\* time passes between two callbacks
RestTick(d) ==
  /\ RestTicksTaken < MaxRestTicks
  /\ now' = now + d
  /\ UNCHANGED <<cachedTools, toolsCacheTime>>
  /\ UNCHANGED serverVars
  /\ UNCHANGED toolVars
  /\ UNCHANGED appVars

(* --------------------------- specification ---------------------------- *)
\* the tool cache under direct calls, invalidation, docs_refresh and time
NextCache ==
  \/ \E c \in Calls : GetTools(c)
  \/ Invalidate
  \/ \E c \in Calls : DocsRefresh(c)
  \/ \E c \in Calls : InitDone(c)
  \/ \E c \in Calls : \E reply \in Replies : ListDone(c, reply)
  \/ \E d \in TickSteps : Tick(d)

SpecCache == Init /\ [][NextCache]_vars

\* server instances and the registration calls made on them
NextReg ==
  \/ \E c \in Calls : CreateServer(c)
  \/ \E c \in Calls : \E s \in Servers : Register(c, s)
  \/ \E c \in Calls : RegisterFinish(c)
  \/ \E c \in Calls : InitDone(c)
  \/ \E c \in Calls : \E reply \in Replies : ListDone(c, reply)

SpecReg == Init /\ [][NextReg]_vars

\* one instance serving docs_ tool calls
NextTool ==
  \/ \E n \in RemoteNames : \E args \in ToolArgs : Invoke(DocsName(n), args)
  \/ \E ok \in BOOLEAN : InitializeDone(ok)
  \/ \E ok \in BOOLEAN : NotifyDone(ok)
  \/ \E reply \in CallReplies : CallDone(reply)
  \/ \E local \in MetaTools : MetaInvoke(local)
  \/ \E reply \in Replies : MetaSettle(reply)

SpecTool == ServingInit /\ [][NextTool]_vars

\* the registration loop applied to every fetched list
NextBatch == RegisterLoop

SpecBatch == BatchInit /\ [][NextBatch]_vars

\* convertToZodSchema applied to every schema, and the resulting validator
\* to every argument object
NextSchema ==
  \/ Convert
  \/ \E args \in ArgObjects : Validate(args)

SpecSchema == SchemaInit /\ [][NextSchema]_vars

\* the process from main() to the running server
NextBoot ==
  \/ \E transport \in {"stdio", "http"} : Main(transport)
  \/ \E reply \in Replies : WarmSettle(reply)
  \/ DelayDone
  \/ RunStdioCreate
  \/ Connect
  \/ Listen
  \/ \E c \in Calls : PostMcp(c)
  \/ \E c \in Calls : GetApi(c)
  \/ \E c \in Calls : InitDone(c)
  \/ \E c \in Calls : \E reply \in Replies : ListDone(c, reply)
  \/ \E c \in Calls : RegisterFinish(c)

SpecBoot == Init /\ [][NextBoot]_vars

\* the cached reads of the REST service, one call at a time
NextRest ==
  \/ \E key \in RestKeys : RestCall(key)
  \/ \E reply \in RestBodies \cup {RestError} : RestSettle(reply)
  \/ \E d \in {1, CACHE_DURATION_MS} : RestTick(d)

SpecRest == Init /\ [][NextRest]_vars

\* every posted request settles (axios times out after 30 s), every timer
\* fires and every continuation runs; requests from clients need not come
SpecBootFair ==
  /\ SpecBoot
  /\ WF_vars(\E transport \in {"stdio", "http"} : Main(transport))
  /\ WF_vars(\E reply \in Replies : WarmSettle(reply))
  /\ WF_vars(DelayDone)
  /\ WF_vars(RunStdioCreate)
  /\ WF_vars(Connect)
  /\ WF_vars(Listen)
  /\ WF_vars(\E c \in Calls : InitDone(c))
  /\ WF_vars(\E c \in Calls : \E reply \in Replies : ListDone(c, reply))
  /\ WF_vars(\E c \in Calls : RegisterFinish(c))

(* ------------------------------ claims -------------------------------- *)
RegisterCalls(s) == {c \in Calls : calls[c].op = "register" /\ calls[c].srv = s}
DocsToolsOf(s) == {t \in registry[s] : IsDocs(t)}
\* call c enters fetchGitBookTools in this step
Enters(c) == calls[c].op = "none" /\ calls'[c].op # "none" /\ ~calls'[c].threw
\* the tools/list request of call c settles in this step
Settles(c) == calls[c].pc = "list" /\ calls'[c].pc # "list"

\* C1: every instance on which registerGitBookProxyTools has returned with
\* the remote unreachable and the cache empty (each of its registration
\* calls failed upstream and got the empty list) exposes exactly the three
\* meta-tools as its docs_ tools - the 2nd, 3rd, ... instance of
\* createServer included.
C1_MetaToolsOnEveryInstance ==
  \A s \in created :
    ( /\ RegisterCalls(s) # {}
      /\ \A c \in RegisterCalls(s) :
           /\ calls[c].pc = "done"
           /\ ~calls[c].threw
           /\ calls[c].failed
           /\ calls[c].ret = <<>> )
    => DocsToolsOf(s) = MetaTools

\* C2: an instance on which registerGitBookProxyTools has returned two or
\* more times holds the three meta-tools, and no registration call on it
\* ended in a duplicate-registration error.
C2_MetaToolsOncePerInstance ==
  \A s \in created :
    ( /\ Cardinality(RegisterCalls(s)) >= 2
      /\ \A c \in RegisterCalls(s) : calls[c].pc = "done" )
    => /\ MetaTools \subseteq registry[s]
       /\ \A c \in RegisterCalls(s) : ~calls[c].threw

\* C3: in every interleaving of registration calls, registerGitBookMetaTools
\* runs at most once and at most one call sees the guard unset.
C3_MetaGuardAtomic ==
  /\ metaRuns <= 1
  /\ Cardinality({c \in Calls : calls[c].metaBy}) <= 1

\* two registration calls in flight at once, the meta-tools registered once
C3_Witness ==
  /\ metaRuns = 1
  /\ \E c, d \in Calls :
       /\ c # d
       /\ calls[c].op = "register" /\ calls[c].pc \in {"init", "list", "ret"}
       /\ calls[d].op = "register" /\ calls[d].pc \in {"init", "list", "ret"}

\* C4 as stated: while the process has run for less than one TTL window
\* (so that any two calls lie within one window of each other), a call
\* started after another call returned, with no invalidation in between,
\* is a cache hit and issues no upstream request - the two together issue
\* at most one.
C4_SecondCallHits ==
  (now - StartTime < TOOLS_CACHE_DURATION) =>
    \A c \in Calls : calls[c].after => (calls[c].hit /\ calls[c].reqs = 0)

\* C4 as amended: a call started after another call returned a set taken
\* from a successful upstream response or from the cache, less than
\* 600,000 ms after that set was stored and with no invalidation in
\* between, is a cache hit and issues no upstream request; no call issues
\* more than one.
C4_HitAfterStoredSet ==
  \A c \in Calls :
    /\ calls[c].afterOk => (calls[c].hit /\ calls[c].reqs = 0)
    /\ calls[c].reqs <= 1

\* a first call fetched one set upstream, the second was served from it
C4_Witness ==
  \E c, d \in Calls :
    /\ calls[c].pc = "done" /\ ~calls[c].failed /\ calls[c].reqs = 1
    /\ calls[d].pc = "done" /\ calls[d].afterOk /\ calls[d].hit
    /\ calls[d].ret = calls[c].got

\* C5: a call is served from the cache, with no upstream request, exactly
\* when a cached set - an empty one included - exists at its cache test and
\* is younger than 600,000 ms; in every other case it sends the handshake
\* and then its tools/list request.
C5_HitIffFresh ==
  [][ \A c \in Calls :
        /\ Enters(c) =>
             /\ calls'[c].hit <=>
                  (~cachedTools'.isNull /\ now - toolsCacheTime' < TOOLS_CACHE_DURATION)
             /\ calls'[c].hit =>
                  (calls'[c].reqs = 0 /\ calls'[c].pc \in {"ret", "done"})
             /\ ~calls'[c].hit => calls'[c].pc = "init"
        /\ (calls[c].pc = "init" /\ calls'[c].pc # "init") =>
             (calls'[c].pc = "list" /\ calls'[c].reqs = 1) ]_vars

\* a call started after a successful one, past the TTL, went upstream
C5_Witness ==
  \E c, d \in Calls :
    /\ c # d
    /\ calls[c].pc = "done" /\ ~calls[c].failed /\ calls[c].reqs = 1
    /\ calls[d].after /\ ~calls[d].afterOk /\ ~calls[d].hit
    /\ calls[d].pc = "list" /\ calls[d].reqs = 1
    /\ ~cachedTools.isNull

\* C6: the first call entering fetchGitBookTools after clearGitBookCache()
\* is never served from the cache, also when calls already in flight
\* settle between the invalidation and that call.
C6_FetchAfterClearGoesUpstream ==
  \A c \in Calls : calls[c].forced => ~calls[c].hit

\* C7: a call whose upstream request fails does not throw and returns the
\* set cached at that moment, whatever its age, or the empty sequence when
\* none is cached.
C7_FailureReturnsCached ==
  [][ \A c \in Calls :
        (Settles(c) /\ calls'[c].failed) =>
          /\ calls'[c].ret = IF cachedTools.isNull THEN <<>> ELSE cachedTools.tools
          /\ ~calls'[c].threw
          /\ calls'[c].pc \in {"ret", "done"} ]_vars

\* a call started past the TTL of a stored set failed and returned that set
C7_Witness ==
  \E c \in Calls :
    /\ calls[c].after /\ ~calls[c].afterOk
    /\ calls[c].failed /\ calls[c].pc = "done"
    /\ calls[c].ret # <<>>
    /\ cachedTools = Some(calls[c].ret)

\* C8: an operation (getTools, docs_refresh) whose upstream fetch failed has
\* not changed the cached set in any of its steps, so the set readers
\* obtained before it is still in place after it.
C8_FailedOperationKeepsSet ==
  \A c \in Calls :
    (calls[c].pc = "done" /\ calls[c].failed) => ~calls[c].wrote

\* C9: between any two callbacks cachedTools is null exactly when
\* toolsCacheTime is 0, and the pair changes only to (null, 0) or to the
\* whole list of one successful response together with the time of that
\* store.
C9_CachePairConsistent ==
  /\ [](cachedTools.isNull <=> toolsCacheTime = 0)
  /\ [][ <<cachedTools, toolsCacheTime>>' # <<cachedTools, toolsCacheTime>> =>
           \/ (cachedTools' = Null /\ toolsCacheTime' = 0)
           \/ \E c \in Calls :
                /\ Settles(c) /\ ~calls'[c].failed
                /\ cachedTools' = Some(calls'[c].got)
                /\ toolsCacheTime' = now ]_vars

\* a set is cached while another call is suspended on the network
C9_Witness ==
  /\ ~cachedTools.isNull
  /\ toolsCacheTime = now
  /\ \E c \in Calls : calls[c].pc \in {"init", "list"}

\* C10: every call that was not served from the cache issues its own
\* tools/list request, whatever else is in flight; a call returns the whole
\* list of its own response, or on failure the set cached at that moment;
\* and each successful response replaces the cache, so the cache holds the
\* set of the request that settled last.
C10_IndependentFetches ==
  /\ [](\A c \in Calls :
          /\ (~calls[c].hit /\ calls[c].pc \in {"list", "ret", "done"} /\ ~calls[c].threw)
               => calls[c].reqs = 1
          /\ (~calls[c].hit /\ ~calls[c].failed /\ calls[c].pc \in {"ret", "done"})
               => calls[c].ret = calls[c].got)
  /\ [][ \A c \in Calls :
           /\ (Enters(c) /\ ~calls'[c].hit) => calls'[c].pc = "init"
           /\ (Settles(c) /\ ~calls'[c].failed) => cachedTools' = Some(calls'[c].got)
           /\ (Settles(c) /\ calls'[c].failed) =>
                /\ cachedTools' = cachedTools
                /\ calls'[c].ret = IF cachedTools.isNull THEN <<>> ELSE cachedTools.tools ]_vars

\* two overlapping calls both fetched; the one started first settled last,
\* so the cache holds its set while the other caller got a different one
C10_Witness ==
  \E c, d \in Calls :
    /\ c < d
    /\ ~calls[d].after
    /\ calls[c].pc = "done" /\ ~calls[c].hit /\ ~calls[c].failed /\ calls[c].reqs = 1
    /\ calls[d].pc = "done" /\ ~calls[d].hit /\ ~calls[d].failed /\ calls[d].reqs = 1
    /\ calls[c].got # calls[d].got
    /\ calls[d].ret = calls[d].got
    /\ cachedTools = Some(calls[c].got)

\* the proxied handler invocation has answered or thrown
ProxyDone == inv.op = "proxy" /\ inv.pc = "done"
IsToolsCall(r) == r.method = "tools/call"
Tokens(text) == {text[i] : i \in 1..Len(text)}
\* part occurs in text as a run of consecutive pieces starting after from
OccursFrom(part, text, from) ==
  \E k \in from..(Len(text) - Len(part)) :
    \A i \in 1..Len(part) : text[k + i] = part[i]

\* C11: callGitBookTool never raises, whatever the handshake and the
\* tools/call POST do; when the POST fails in transport, times out (30 s)
\* or carries a JSON-RPC error, the returned result has isError = true and
\* exactly one content block, a text block holding the error's message.
C11_CallNeverRaises ==
  ProxyDone =>
    /\ ~inv.result.threw
    /\ inv.reply.kind \in {"unreachable", "timeout", "rpcError", "rpcErrorNoMessage"} =>
         /\ inv.result.defined
         /\ inv.result.isError = "true"
         /\ inv.result.hasContent
         /\ Len(inv.result.content) = 1
         /\ inv.result.content[1].type = "text"
         /\ inv.result.content[1].text.has
         /\ ErrorMessage(inv.reply) \in Tokens(inv.result.content[1].text.val)

\* the handshake failed and the tools/call POST timed out: an error result
C11_Witness ==
  /\ ProxyDone
  /\ Len(inv.sent) = 2
  /\ inv.reply.kind = "timeout"
  /\ inv.result.isError = "true"
  /\ "timeout of 30000ms exceeded" \in Tokens(inv.result.content[1].text.val)

\* C12: every docs_ handler invocation - proxied, docs_health,
\* docs_refresh, docs_list_tools - ends with a response object carrying a
\* content sequence, whatever came back from upstream; none ends in an
\* exception.
C12_HandlersAlwaysAnswer ==
  inv.pc = "done" => (~inv.resp.threw /\ inv.resp.answered)

\* C13: an invocation of docs_<name> with arguments A posts exactly one
\* tools/call request, once its handshake is over, and that request
\* carries the remote name <name> and A itself.
C13_OneUpstreamCall ==
  inv.op = "proxy" =>
    LET posted == SelectSeq(inv.sent, IsToolsCall)
    IN /\ inv.pc \in {"init", "notify"} => posted = <<>>
       /\ inv.pc \in {"call", "done"} =>
            /\ Len(posted) = 1
            /\ DocsName(posted[1].params.name) = inv.tool
            /\ posted[1].params.name \in RemoteNames
            /\ posted[1].params.arguments = inv.args

\* docs_search called with two arguments after a full handshake
C13_Witness ==
  /\ ProxyDone
  /\ inv.tool = DocsName("search")
  /\ DOMAIN inv.args = {"query", "page"}
  /\ Len(inv.sent) = 3
  /\ inv.sent[3].params.arguments = inv.args

\* C14: when the upstream result does not have its failure flag set, the
\* handler's response carries the upstream content blocks themselves: as
\* many, in the same order, each equal in type, text and every other
\* member.
C14_ContentPassedThrough ==
  (ProxyDone /\ inv.reply.kind = "result" /\ inv.reply.isError # "true") =>
    /\ inv.resp.answered
    /\ inv.resp.content = inv.reply.content

\* the text the claim expects in the failure response: that of the first
\* block of type text, 'Unknown error' when no block has that type
FirstTextBlock(content) ==
  LET texts == {i \in 1..Len(content) : content[i].type = "text"}
  IN IF texts = {} THEN <<"Unknown error">>
     ELSE LET first == CHOOSE i \in texts : \A j \in texts : i <= j
          IN content[first].text.val

\* C15: when the upstream result has its failure flag set, the handler
\* answers with isError = true and one text block, in which the text of
\* the upstream's first text block ('Unknown error' when it has none) is
\* followed by a hint naming docs_refresh and https://docs.sodax.com.
C15_FailureWrapped ==
  (ProxyDone /\ inv.reply.kind = "result" /\ inv.reply.isError = "true") =>
    /\ inv.resp.answered
    /\ inv.resp.isError = "true"
    /\ Len(inv.resp.content) = 1
    /\ inv.resp.content[1].type = "text"
    /\ LET text == inv.resp.content[1].text.val
           detail == FirstTextBlock(inv.reply.content)
       IN \E k \in 0..Len(text) :
            /\ OccursFrom(detail, text, k)
            /\ OccursFrom(<<"docs_refresh">>, text, k + Len(detail))
            /\ OccursFrom(<<"https://docs.sodax.com">>, text, k + Len(detail))

\* positions of the fetched list whose schema translation succeeds
Translatable(tools) ==
  {i \in 1..Len(tools) : ~ConvertToZodSchema(RemoteSchema(tools[i])).threw}

\* C16: the loop ends for every fetched list; every tool of the list
\* whose schema translates is registered afterwards, whatever threw
\* before or after it; and the returned count is the number of tools
\* whose registration did not throw - those that translate, are not yet
\* on the instance and do not repeat an earlier tool of the list.
C16_FailedToolSkipped ==
  batch.pc = "done" =>
    LET ok == Translatable(batch.tools)
    IN /\ registry[1] = batch.before \cup {DocsName(batch.tools[i]) : i \in ok}
       /\ batch.count =
            Cardinality({i \in ok :
                           /\ DocsName(batch.tools[i]) \notin batch.before
                           /\ \A j \in 1..(i - 1) : batch.tools[j] # batch.tools[i]})

\* a tool without inputSchema came first, a duplicate last, and the tool
\* between them was registered and counted
C16_Witness ==
  /\ batch.pc = "done"
  /\ batch.tools = <<"noSchema", "getPage", "getPage">>
  /\ DocsName("getPage") \in registry[1] \ batch.before
  /\ batch.count = 1

\* C17: the translated validator rejects every argument object that omits
\* a name listed in required - whatever kind the field has, and also when
\* the name has no entry in properties - and accepting an argument object
\* it also accepts that object without any declared field that is not in
\* required.
C17_RequiredEnforced ==
  conv.pc = "checked" =>
    /\ (\E k \in RequiredNames(conv.schema.required) : k \notin DOMAIN conv.args)
         => ~conv.ok
    /\ \A k \in DOMAIN conv.schema.properties.defs \ RequiredNames(conv.schema.required) :
         conv.ok =>
           ZodAccepts(conv.out.shape, [j \in DOMAIN conv.args \ {k} |-> conv.args[j]])

\* C18: when convertToZodSchema returns, the shape has exactly the keys of
\* properties, and each key's validator is the one its declared type
\* selects: string, number for 'number' and 'integer', boolean, array,
\* object, and any for every other or missing type.
C18_KindPerType ==
  (conv.pc \in {"converted", "checked"} /\ ~conv.out.threw) =>
    LET defs == conv.schema.properties.defs
        shape == conv.out.shape
    IN /\ DOMAIN shape = DOMAIN defs
       /\ \A k \in DOMAIN defs :
            LET t == defs[k].type
                kind == shape[k].kind
            IN /\ t = "string" => kind = "string"
               /\ t \in {"number", "integer"} => kind = "number"
               /\ t = "boolean" => kind = "boolean"
               /\ t = "array" => kind = "array"
               /\ t = "object" => kind = "object"
               /\ t \notin {"string", "number", "integer", "boolean", "array", "object"}
                    => kind = "any"

\* an integer field and a field of an unknown type were translated
C18_Witness ==
  /\ conv.pc = "converted"
  /\ ~conv.out.threw
  /\ DOMAIN conv.out.shape = {"query", "limit"}
  /\ conv.schema.properties.defs["query"].type = "integer"
  /\ conv.out.shape["query"].kind = "number"
  /\ conv.schema.properties.defs["limit"].type = "date"
  /\ conv.out.shape["limit"].kind = "any"

\* C19: convertToZodSchema returns a validator for every schema:
\* properties absent, empty, or with an entry that is null, not an object
\* or without a type; required absent or not a list.
C19_ConvertTotal ==
  conv.pc = "converted" => ~conv.out.threw

\* C20: for a schema whose properties is absent or empty, whatever its
\* required holds, the translation returns, and the validator accepts the
\* empty argument object and every other argument object.
C20_EmptySchemaAcceptsAll ==
  (~conv.schema.properties.has \/ DOMAIN conv.schema.properties.defs = {}) =>
    /\ conv.pc = "converted" => (~conv.out.threw /\ DOMAIN conv.out.shape = {})
    /\ conv.pc = "checked" => conv.ok

\* empty properties, a required list naming a field: the empty argument
\* object was validated and accepted
C20_Witness ==
  /\ conv.pc = "checked"
  /\ conv.schema.properties.has
  /\ DOMAIN conv.schema.properties.defs = {}
  /\ conv.schema.required.form = "list"
  /\ "query" \in conv.schema.required.names
  /\ conv.args = EmptyArgs
  /\ conv.ok

\* C21: after the registration loop has run, on an instance holding no
\* proxied tool yet, over a fetched list of n definitions with pairwise
\* distinct names, the instance has n + 3 docs_ tools: the three meta-tools
\* and, for every definition - one named health, refresh or list_tools
\* included - a proxy docs_<name> registered with the translated schema as
\* its parameters.
C21_OneToolPerDefinition ==
  ( /\ batch.pc = "done"
    /\ \A i, j \in 1..Len(batch.tools) : batch.tools[i] = batch.tools[j] => i = j
    /\ {t \in batch.before : IsDocs(t)} = MetaTools )
  => /\ Cardinality(DocsToolsOf(1)) = Len(batch.tools) + 3
     /\ MetaTools \subseteq registry[1]
     /\ \A i \in 1..Len(batch.tools) :
          LET local == DocsName(batch.tools[i])
              translated == ConvertToZodSchema(RemoteSchema(batch.tools[i]))
          IN /\ local \in registry[1]
             /\ local \in DOMAIN batch.params
             /\ ~translated.threw
             /\ batch.params[local] = translated.shape

\* C22: the warm-up makes between 1 and 3 attempts; an attempt after the
\* first starts only when the one before it yielded no tool and 5,000 ms
\* have passed since; no attempt follows one that obtained a tool; and the
\* warm-up returns true exactly when some attempt obtained a tool.
C22_WarmupAttempts ==
  /\ [](/\ gitbookInitAttempts <= 3
        /\ boot.pc # "idle" => gitbookInitAttempts >= 1
        /\ boot.returned => (boot.ret <=> boot.got))
  /\ [][ /\ gitbookInitAttempts' # gitbookInitAttempts =>
              /\ gitbookInitAttempts' = gitbookInitAttempts + 1
              /\ ~boot.got
              /\ ~boot.returned
              /\ gitbookInitAttempts >= 1 =>
                   /\ boot.pc = "delay"
                   /\ boot.tools = <<>>
                   /\ now' - boot.since >= 5000
         /\ (boot'.got /\ ~boot.got) => (boot'.returned /\ boot'.ret) ]_vars

\* two attempts yielded nothing, the third obtained tools 10 s after start
C22_Witness ==
  /\ boot.returned /\ boot.ret
  /\ gitbookInitAttempts = 3
  /\ boot.waited = 2
  /\ now = StartTime + 10000
  /\ gitbookToolsRegistered

C24_NamesDegradeToFixed ==
  \A c \in Calls :
    (calls[c].op = "getTools" /\ calls[c].pc = "done") =>
      LET names == GetGitBookToolNames(calls[c])
      IN /\ ~calls[c].threw
         /\ Len(names) = Len(calls[c].ret) + 3
         /\ \A i \in 1..Len(calls[c].ret) : names[i] = DocsName(calls[c].ret[i])
         /\ \A i \in 1..3 : names[Len(calls[c].ret) + i] = MetaOrder[i]
         /\ calls[c].failed => names = MetaOrder

\* C25: checkGitBookHealth() returns healthy = false and toolCount = 0
\* when the upstream request of the call failed, and healthy = true with
\* the number of tools only when the request succeeded or the list came
\* from a fresh cache.
C25_HealthReportsReachability ==
  \A c \in Calls :
    (calls[c].op = "getTools" /\ calls[c].pc = "done") =>
      LET health == CheckGitBookHealth(calls[c])
      IN /\ calls[c].failed => (~health.healthy /\ health.toolCount = 0)
         /\ health.healthy =>
              /\ (calls[c].hit \/ ~calls[c].failed)
              /\ health.toolCount = Len(calls[c].ret)

\* C26 (as stated): a docs_refresh invocation clears the cache, issues
\* exactly one tools/list request, and answers with the count and names of
\* the set that request returned - the failure hint when the request
\* returned no tool; a successful request leaves that set in the cache
\* with the time of the store.
C26_RefreshReportsOwnRequest ==
  /\ [](\A c \in Calls :
          (calls[c].op = "refresh" /\ calls[c].pc = "done") =>
            /\ ~calls[c].hit /\ calls[c].reqs = 1
            /\ MetaResponse(DocsName("refresh"), calls[c].ret)
                 = MetaResponse(DocsName("refresh"), calls[c].got))
  /\ [][ \A c \in Calls :
           /\ (Enters(c) /\ calls'[c].op = "refresh") =>
                (cachedTools' = Null /\ toolsCacheTime' = 0)
           /\ (Settles(c) /\ calls'[c].op = "refresh" /\ ~calls'[c].failed) =>
                (cachedTools' = Some(calls'[c].got) /\ toolsCacheTime' = now) ]_vars

\* C26 (amended): a docs_refresh invocation clears the cache, issues
\* exactly one tools/list request, and answers with the count and names of
\* the set fetchGitBookTools returned: the set of its own request when
\* that succeeded, otherwise the set cached at the moment its request
\* failed, which a concurrent call may have stored since the clear; the
\* failure hint when that set is empty. A successful request leaves its
\* set in the cache with the time of the store.
C26_RefreshReportsFetched ==
  /\ [](\A c \in Calls :
          (calls[c].op = "refresh" /\ calls[c].pc = "done") =>
            (~calls[c].hit /\ calls[c].reqs = 1))
  /\ [][ \A c \in Calls :
           /\ (Enters(c) /\ calls'[c].op = "refresh") =>
                (cachedTools' = Null /\ toolsCacheTime' = 0 /\ calls'[c].pc = "init")
           /\ (Settles(c) /\ calls'[c].op = "refresh") =>
                /\ MetaResponse(DocsName("refresh"), calls'[c].ret)
                     = MetaResponse(DocsName("refresh"),
                                    IF calls'[c].failed
                                    THEN (IF cachedTools.isNull THEN <<>> ELSE cachedTools.tools)
                                    ELSE calls'[c].got)
                /\ ~calls'[c].failed =>
                     (cachedTools' = Some(calls'[c].got) /\ toolsCacheTime' = now) ]_vars

\* a refresh whose own request failed answered with the set a concurrent
\* call stored after the clear
C26_Witness ==
  \E c \in Calls :
    /\ calls[c].op = "refresh" /\ calls[c].pc = "done"
    /\ calls[c].failed /\ calls[c].reqs = 1
    /\ calls[c].ret # <<>>
    /\ MetaResponse(DocsName("refresh"), calls[c].ret).content[1].text.val[1] = "Refreshed."

\* C27: an invocation of a tool registered after withAnalytics(server) makes
\* exactly one trackToolCall when its handler ends - success = true when
\* the handler returned, success = false with the error text when it threw
\* - and none before; the caller gets the handler's own response or
\* exception; one event is captured with POSTHOG_API_KEY set and none
\* without it.
C27_OneTrackingCallPerInvocation ==
  /\ inv.pc # "done" => (inv.tracked = <<>> /\ inv.captured = <<>>)
  /\ inv.pc = "done" =>
       /\ inv.tool \in registry[1]
       /\ Len(inv.tracked) = 1
       /\ inv.tracked[1].tool_name = inv.tool
       /\ inv.tracked[1].success = ~inv.resp.threw
       /\ inv.tracked[1].error.has = inv.resp.threw
       /\ inv.out = inv.resp
       /\ inv.captured =
            IF posthogKey
            THEN <<[event |-> "tool_called", tool_name |-> inv.tool,
                    tool_group |-> "sdk-docs",
                    success |-> ~inv.resp.threw,
                    error_message |-> inv.tracked[1].error]>>
            ELSE <<>>

\* a handler threw without POSTHOG_API_KEY: tracked as a failure, nothing
\* captured, the exception handed on
C27_Witness ==
  /\ inv.pc = "done"
  /\ inv.resp.threw /\ inv.out.threw
  /\ ~posthogKey
  /\ inv.tracked # <<>> /\ ~inv.tracked[1].success
  /\ inv.captured = <<>>

LastMethod(sent) == sent[Len(sent)].method
Posts(method) ==
  /\ inv'.sent # inv.sent
  /\ inv'.sent # <<>>
  /\ LastMethod(inv'.sent) = method

\* C29: in fetchGitBookTools and in callGitBookTool the tools/list or
\* tools/call request is posted only once the initialize POST of the same
\* operation has settled, and it is posted after a failed handshake as
\* after a successful one; notifications/initialized is posted only after
\* an initialize that succeeded; a failed initialize does not end the
\* operation, whose result is that of its request.
C29_HandshakeBeforeRequest ==
  /\ [][ /\ (Posts("tools/list") \/ Posts("tools/call")) =>
              /\ inv.pc \in {"init", "notify"}
              /\ inv'.sent = Append(inv.sent, inv'.sent[Len(inv'.sent)])
              /\ LastMethod(inv.sent) \in {"initialize", "notifications/initialized"}
              /\ inv'.initOk \in {"ok", "failed"}
              /\ LastMethod(inv'.sent) = IF inv.op = "proxy" THEN "tools/call" ELSE "tools/list"
         /\ Posts("notifications/initialized") =>
              /\ inv.pc = "init"
              /\ LastMethod(inv.sent) = "initialize"
              /\ inv'.initOk = "ok"
         /\ (inv.pc = "init" /\ inv'.pc # "init") =>
              /\ inv'.pc \in {"notify", "call", "list"}
              /\ inv'.initOk = "failed" =>
                   (Posts("tools/list") \/ Posts("tools/call")) ]_vars
  /\ [](ProxyDone => inv.result = CallGitBookTool(inv.reply))

\* docs_refresh fetched a list after a failed initialize
C29_Witness ==
  /\ inv.op = "meta" /\ inv.pc = "done"
  /\ inv.tool = DocsName("refresh")
  /\ inv.initOk = "failed"
  /\ Len(inv.sent) = 2
  /\ inv.sent[1].method = "initialize" /\ inv.sent[2].method = "tools/list"
  /\ ~cachedTools.isNull /\ cachedTools.tools # <<>>
  /\ inv.resp.answered

\* C30: no step of a proxied call changes cachedTools or toolsCacheTime,
\* and every completed proxied call has posted its tools/call for the
\* remote name its handler was registered for, whether or not the cached
\* list holds that name.
C30_CallLeavesCacheAlone ==
  /\ [][ (inv'.op = "proxy" /\ inv' # inv) =>
           (cachedTools' = cachedTools /\ toolsCacheTime' = toolsCacheTime) ]_vars
  /\ [](ProxyDone =>
          /\ IsToolsCall(inv.sent[Len(inv.sent)])
          /\ inv.sent[Len(inv.sent)].params.name = HandlerTool(inv.tool))

\* a proxied call of a tool that the cached list no longer holds was
\* forwarded and answered
C30_Witness ==
  /\ ProxyDone
  /\ ~cachedTools.isNull
  /\ HandlerTool(inv.tool) \notin Tokens(cachedTools.tools)
  /\ inv.resp.answered /\ inv.resp.isError # "true"
  /\ inv.sent[Len(inv.sent)].params.name = HandlerTool(inv.tool)

\* C28: a cached REST read uses its cache key exactly when an entry exists
\* whose age is at most 120,000 ms, and then returns the stored data
\* without an upstream request; an older entry is deleted by the read and
\* the data is requested again; a failed request stores nothing.
C28_FreshEntryServed ==
  /\ [](rest.pc \in {"get", "done"} =>
          /\ rest.hit <=> (rest.had /\ rest.age <= 120000)
          /\ rest.hit => (rest.reqs = 0 /\ rest.ret = restCache[rest.key].data)
          /\ (rest.had /\ rest.age > 120000) => (rest.dropped /\ rest.reqs = 1)
          /\ rest.threw => ~rest.stored)
  /\ [][ (rest.pc = "get" /\ rest'.threw) => restCache' = restCache ]_vars

\* C31: in HTTP mode every POST /mcp request gets an McpServer that did
\* not exist before the request, so no two requests - concurrent ones
\* included - share an instance (or the transport connected to it), and
\* every instance has gone through createServer: the sodax_ tools are on
\* it and a registerGitBookProxyTools call belongs to it.
C31_ServerPerRequest ==
  /\ [](\A c, d \in Calls :
          (calls[c].op = "register" /\ calls[d].op = "register" /\ c # d) =>
            calls[c].srv # calls[d].srv)
  /\ [](\A s \in created : SodaxTools \subseteq registry[s] /\ RegisterCalls(s) # {})
  /\ [][ \A c \in Calls :
           (calls[c].op = "none" /\ calls'[c].op = "register") =>
             /\ calls'[c].srv \notin created
             /\ created' = created \cup {calls'[c].srv}
             /\ SodaxTools \subseteq registry'[calls'[c].srv] ]_vars

\* two POST /mcp requests in flight at once, each with its own instance
C31_Witness ==
  /\ boot.pc = "started" /\ boot.transport = "http"
  /\ \E c, d \in Calls :
       /\ c # d
       /\ calls[c].op = "register" /\ calls[c].pc \in {"init", "list"}
       /\ calls[d].op = "register" /\ calls[d].pc \in {"init", "list"}
       /\ calls[c].srv # calls[d].srv
       /\ {calls[c].srv, calls[d].srv} \subseteq created

\* C32: resolveToolGroup gives a listed name its group in TOOL_GROUPS, an
\* unlisted name starting with docs_ the group sdk-docs, and any other
\* unlisted name unknown; every tool registered on an instance - sodax_
\* tools, meta-tools, proxies - resolves to api or sdk-docs, and so does
\* the tool of every captured event.
C32_EveryToolHasGroup ==
  /\ \A s \in created : \A t \in registry[s] :
       /\ ResolveToolGroup(t) =
            IF t \in DOMAIN TOOL_GROUPS THEN TOOL_GROUPS[t]
            ELSE IF IsDocs(t) THEN "sdk-docs" ELSE "unknown"
       /\ ResolveToolGroup(t) = IF t \in SodaxTools THEN "api" ELSE "sdk-docs"
  /\ SodaxTools \cup MetaTools \subseteq DOMAIN TOOL_GROUPS
  /\ ResolveToolGroup(<<"sodax_", "unlisted">>) = "unknown"
  /\ inv.captured # <<>> =>
       (inv.captured[1].tool_group = ResolveToolGroup(inv.tool)
          /\ inv.captured[1].tool_group # "unknown")

\* an event captured for a dynamic proxy, which TOOL_GROUPS does not list
C32_Witness ==
  /\ posthogKey
  /\ inv.pc = "done"
  /\ inv.tool \notin DOMAIN TOOL_GROUPS
  /\ inv.tool \in registry[1]
  /\ inv.captured # <<>>
  /\ inv.captured[1].tool_group = "sdk-docs"

\* C33: the step in which a fetchGitBookTools call handles the failure of
\* its upstream request changes neither cachedTools nor toolsCacheTime: a
\* cached set is not cleared, an empty one is not stored, and the
\* timestamp of a stale one is not renewed.
C33_FailureLeavesCachePair ==
  [][ \A c \in Calls :
        (Settles(c) /\ calls'[c].failed) =>
          /\ cachedTools' = cachedTools
          /\ toolsCacheTime' = toolsCacheTime
          /\ CacheFresh(cachedTools', toolsCacheTime', now)
               <=> CacheFresh(cachedTools, toolsCacheTime, now) ]_vars

\* a failed call has settled while a stale set is cached: the set and its
\* old timestamp are still there
C33_Witness ==
  \E c \in Calls :
    /\ calls[c].failed /\ calls[c].pc = "done" /\ calls[c].reqs = 1
    /\ ~cachedTools.isNull /\ cachedTools.tools # <<>>
    /\ toolsCacheTime = StartTime
    /\ now - toolsCacheTime >= TOOLS_CACHE_DURATION
    /\ ~CacheFresh(cachedTools, toolsCacheTime, now)

\* C34: when the first warm-up attempt gets a successful reply without
\* tools, the empty set is stored with the time of that attempt; every
\* later fetchGitBookTools call within the TTL - warm-up attempts 2 and 3
\* and the registration calls that follow - is served from the cache
\* without an upstream request, and the warm-up returns false after three
\* attempts and one request.
C34_EmptySetIsCached ==
  /\ [][ (boot.pc = "fetch" /\ boot.retryCount = 0 /\ boot'.pc # "fetch"
            /\ ~boot'.failed /\ boot'.tools = <<>>) =>
           (cachedTools' = Some(<<>>) /\ toolsCacheTime' = now /\ now = StartTime) ]_vars
  /\ []((cachedTools = Some(<<>>) /\ toolsCacheTime = StartTime) =>
          /\ boot.pc # "idle" /\ boot.pc # "fetch"
          /\ boot.upstream = 1
          /\ ~boot.got /\ ~gitbookToolsRegistered
          /\ now - toolsCacheTime < TOOLS_CACHE_DURATION
          /\ boot.returned =>
               (~boot.ret /\ gitbookInitAttempts = 3 /\ boot.waited = 2)
          /\ \A c \in Calls :
               calls[c].op # "none" =>
                 (calls[c].hit /\ calls[c].reqs = 0 /\ calls[c].ret = <<>>))

\* the warm-up has returned false on the cached empty set after one request
C34_Witness ==
  /\ cachedTools = Some(<<>>) /\ toolsCacheTime = StartTime
  /\ boot.returned /\ ~boot.ret
  /\ gitbookInitAttempts = 3
  /\ boot.upstream = 1
  /\ now = StartTime + 10000

\* C35: a failure is not cached. A fetchGitBookTools call that starts
\* while the cache is empty or stale posts a request of its own, and so
\* does every call started when no set was stored within the TTL before
\* it; when its request succeeds, the call returns the set of that reply
\* and stores it with the time of the store.
C35_NoNegativeCaching ==
  /\ [](\A c \in Calls :
          (calls[c].op # "none" /\ ~calls[c].threw /\ ~calls[c].afterOk) =>
            /\ ~calls[c].hit
            /\ calls[c].pc \in {"list", "ret", "done"} => calls[c].reqs = 1)
  /\ [][ \A c \in Calls :
           /\ (Enters(c) /\ ~CacheFresh(cachedTools', toolsCacheTime', now)) =>
                (~calls'[c].hit /\ calls'[c].pc = "init")
           /\ (Settles(c) /\ ~calls'[c].failed) =>
                /\ calls'[c].ret = calls'[c].got
                /\ cachedTools' = Some(calls'[c].ret)
                /\ toolsCacheTime' = now ]_vars

\* a call failed on an empty cache; the next call, started at once, went
\* upstream, got tools and stored them
C35_Witness ==
  \E c, d \in Calls :
    /\ d < c
    /\ calls[d].pc = "done" /\ calls[d].failed /\ calls[d].ret = <<>>
    /\ calls[c].after /\ ~calls[c].afterOk
    /\ calls[c].pc = "done" /\ ~calls[c].hit /\ ~calls[c].failed
    /\ calls[c].reqs = 1
    /\ calls[c].ret # <<>>
    /\ cachedTools = Some(calls[c].ret)
    /\ toolsCacheTime = StartTime /\ now = StartTime

\* C36: no step taken after registerGitBookProxyTools has returned on an
\* instance - a proxied call, docs_health, docs_refresh, docs_list_tools,
\* with whatever change of the cache it brings - adds a tool to the
\* instance or removes one.
C36_RegistryFixed ==
  [][ registry' = registry /\ created' = created ]_vars

\* docs_refresh has answered with a list naming a tool for which the
\* instance it ran on has no proxy
C36_Witness ==
  /\ inv.op = "meta" /\ inv.pc = "done"
  /\ inv.tool = DocsName("refresh")
  /\ inv.resp.answered
  /\ \E i \in 1..Len(cachedTools.tools) :
       /\ DocsName(cachedTools.tools[i]) \notin registry[1]
       /\ cachedTools.tools[i] \in Tokens(inv.resp.content[1].text.val)

\* C38: a docs_health reply that reports availability shows as its tool
\* count the number of tools of the list its example names come from.
C38_HealthCountMatchesList ==
  ( /\ inv.op = "meta" /\ inv.pc = "done"
    /\ inv.tool = DocsName("health")
    /\ inv.resp.answered
    /\ inv.resp.content[1].text.val[1] = "SDK Docs available." )
  => inv.toolCount = Len(inv.resp.content[1].text.val) - 1

\* C37: once warmGitBookCache has returned, no step changes
\* gitbookToolsRegistered or gitbookInitAttempts, so GET /api keeps
\* reporting the outcome of the warm-up - connected exactly when it
\* returned true - and its number of attempts, whatever later fetches
\* bring.
C37_StartupStatusFrozen ==
  /\ [][ boot.returned =>
           /\ gitbookToolsRegistered' = gitbookToolsRegistered
           /\ gitbookInitAttempts' = gitbookInitAttempts ]_vars
  /\ [](boot.returned =>
          ApiProxyStatus =
            [status |-> IF boot.ret THEN "connected" ELSE "unavailable",
             initAttempts |-> boot.retryCount + 1])

\* the warm-up failed three times; a later GET /api lists a proxied tool
\* and still reports unavailable
C37_Witness ==
  /\ boot.pc = "started" /\ ~boot.ret
  /\ \E c \in Calls :
       /\ calls[c].op = "getTools" /\ calls[c].pc = "done"
       /\ Len(GetGitBookToolNames(calls[c])) > 3
  /\ ApiProxyStatus = [status |-> "unavailable", initAttempts |-> 3]

\* C39: a registerGitBookProxyTools call that returns on an instance on
\* which an earlier call has returned with the same non-empty list
\* changes no instance's tools, raises nothing and returns 0.
C39_SecondRegistrationIdempotent ==
  [][ \A d \in Calls :
        ( /\ calls[d].op = "register"
          /\ calls[d].pc = "ret" /\ calls'[d].pc = "done"
          /\ calls[d].ret # <<>>
          /\ \E c \in Calls :
               /\ c # d
               /\ calls[c].op = "register" /\ calls[c].srv = calls[d].srv
               /\ calls[c].pc = "done" /\ ~calls[c].threw
               /\ calls[c].ret = calls[d].ret )
        => /\ registry' = registry
           /\ calls'[d].count = 0
           /\ ~calls'[d].threw ]_vars

\* the first call registered two proxies, the second on the same instance
\* and list returned 0
C39_Witness ==
  \E c, d \in Calls :
    /\ c < d
    /\ calls[c].op = "register" /\ calls[d].op = "register"
    /\ calls[c].srv = calls[d].srv
    /\ calls[c].pc = "done" /\ calls[d].pc = "done"
    /\ calls[c].ret = calls[d].ret /\ Len(calls[c].ret) = 2
    /\ calls[c].count = 2 /\ calls[d].count = 0
    /\ ~calls[d].threw
    /\ Cardinality(DocsToolsOf(calls[d].srv)) = 5

====
